---- MODULE Spec2Model ----
(***************************************************************************)
(* airss: per-user RSS feed acquisition with ordered fallback, a           *)
(* persistent fingerprint cache with a 30-day retention window, and        *)
(* publishing of uncached entries to a Notion database.                    *)
(*                                                                         *)
(* Two orchestrators live in the repository and both are modelled:         *)
(*   impl = "rsshubai"  src/rsshubai.py (RSSManager.display_content)       *)
(*   impl = "modular"   src/src/managers/rss_manager.py                    *)
(*                      (RSSManager.process_user_content)                  *)
(* The CacheManager, the configuration and the monitor loop exist only in  *)
(* src/rsshubai.py and serve both.                                         *)
(***************************************************************************)
EXTENDS Integers, Sequences, FiniteSets, TLC

(***************************************************************************)
(* Program constants.                                                      *)
(***************************************************************************)
\* display_content handles new_entries[:10]
MAX_NEW == 10
\* the explicit success status try_rss_source looks for
HTTP_OK == 200
\* default max_length of _split_text_to_blocks
MAX_LENGTH == 1900
\* push_entry_to_notion handles image_urls[:5]
IMAGE_CAP == 5
Day == 24 * 3600
\* get_cache_stats: current_time - cached_time > 30 * 24 * 3600
RETENTION == 30 * 24 * 3600

(***************************************************************************)
(* Bounds of the model.                                                    *)
(***************************************************************************)
\* process runs (first start plus restarts)
MaxProcs == 2
\* records the unit-level CacheManager specification lets the cache hold
MaxCache == 2
\* length of the short texts _split_text_to_blocks is applied to
MaxText == 4
\* images of the entry push_entry_to_notion is called with
MaxImages == 6

(***************************************************************************)
(* Python dictionaries: an entry is a function from the keys it has to     *)
(* strings; a key may be missing.                                          *)
(***************************************************************************)
Get(d, k, default) == IF k \in DOMAIN d THEN d[k] ELSE default

Min(a, b) == IF a < b THEN a ELSE b

\* entry.get(k) used as a condition: missing, "" and None are all false
\* (None is the string "None", as an f-string renders it)
Truthy(d, k) == k \in DOMAIN d /\ d[k] # "" /\ d[k] # "None"

EmptyDict == [k \in {} |-> ""]

(***************************************************************************)
(* hashlib.md5(s.encode('utf-8')).hexdigest() on the strings the model     *)
(* feeds it (the digests are the real ones).                               *)
(***************************************************************************)
md5(s) ==
    CASE s = "u1" -> "e4774cdda0793f86414e8b9140bb6db4"
      [] s = "u2" -> "270c1b084f3f146eb5787075158d9c53"
      [] s = "_" -> "b14a7b8059d9c055954c92674ce60032"
      [] s = "_c" -> "d3ad73a490bec7adab1cb5f72eaa3018"
      [] s = "_b_c" -> "b6569fb2370596cdd61a93867bb999eb"
      [] s = "a_" -> "576e09d1183e3df45ded91f0a112c48b"
      [] s = "a_c" -> "56ab2340b7ee17e2ac8486ddb4464c87"
      [] s = "a_b_c" -> "8d28cddc274233853a82eae1c6c7f0b3"
      [] s = "a_b_" -> "36919d74a19ea16b6fd05d3409b3fe45"
      [] s = "a_b_b_c" -> "d737e94ff2749304124eaa7b9fe89115"
      [] s = "p01" -> "fde488a2f0c119f35afdae26d4a51291"
      [] s = "p02" -> "00648b0a2b3fefc9638f4edac0fc00ab"
      [] s = "p03" -> "f1b59c5082e954c658aacfd518d1c0a6"
      [] s = "p04" -> "68ee9838ef9562cf310d65204f5e55c5"
      [] s = "p05" -> "ac1115f395753d789b0d9ee99a7dbce9"
      [] s = "p06" -> "030ff2303dd38dda0c3ea2ff22509783"
      [] s = "p07" -> "3d49157d13a0c7db39330554c0cea4c4"
      [] s = "p08" -> "1e9eda13ef815692ecbb0604c08a9218"
      [] s = "p09" -> "661ab51aa98050db31a2c0eeaeaf92a6"
      [] s = "p10" -> "ad304601e6638bf2bcdd5345c013a6c1"
      [] s = "p11" -> "52053048decaa0cbd3c2dcf5871e5da4"
      [] s = "None_" -> "b6627797169ece686417503494024e01"
      [] s = "_None" -> "2f0a83900f5dbea06718d1f4b6eb0616"
      [] s = "None_None" -> "1d5153d5ffa7b721166f395c75455882"
      [] s = "a_None" -> "44f654f9bc4c2c1c28e18c27dcc1c20e"
      [] s = "None_c" -> "b4dc6144e553efa94319af07192e8d30"

(***************************************************************************)
(* CacheManager (src/rsshubai.py).                                         *)
(***************************************************************************)
\* faulty variant of unique_str: the link is looked at before the id
unique_str_link_first(entry) ==
    IF Truthy(entry, "link") THEN entry["link"]
    ELSE IF Truthy(entry, "id") THEN entry["id"]
    ELSE Get(entry, "title", "") \o "_" \o Get(entry, "published", "")

\* the string _generate_entry_id hashes
unique_str(entry) ==
    IF Truthy(entry, "id") THEN entry["id"]
    ELSE IF Truthy(entry, "link") THEN entry["link"]
    ELSE Get(entry, "title", "") \o "_" \o Get(entry, "published", "")

generate_entry_id(entry) == md5(unique_str(entry))

is_entry_cached(cache, entry) == generate_entry_id(entry) \in DOMAIN cache

\* the value add_entry_to_cache stores
CacheRecord(entry, t) ==
    [title       |-> Get(entry, "title", ""),
     link        |-> Get(entry, "link", ""),
     author      |-> Get(entry, "author", ""),
     published   |-> Get(entry, "published", ""),
     cached_time |-> t]

\* faulty variant of add_entry_to_cache: a fingerprint already in the cache
\* keeps its record (setdefault)
add_entry_to_cache_keep(cache, entry, t) ==
    LET entry_id == generate_entry_id(entry)
    IN  [k \in DOMAIN cache \cup {entry_id} |->
            IF k \in DOMAIN cache THEN cache[k] ELSE CacheRecord(entry, t)]

\* faulty variant of add_entry_to_cache: the cache is replaced by the one
\* record
add_entry_to_cache_alone(cache, entry, t) ==
    [k \in {generate_entry_id(entry)} |-> CacheRecord(entry, t)]

add_entry_to_cache(cache, entry, t) ==
    LET entry_id == generate_entry_id(entry)
    IN  [k \in DOMAIN cache \cup {entry_id} |->
            IF k = entry_id THEN CacheRecord(entry, t) ELSE cache[k]]

\* faulty variant of old_entries: a record exactly as old as the window goes
old_entries_ge(cache, current_time) ==
    {entry_id \in DOMAIN cache :
        current_time - Get(cache[entry_id], "cached_time", 0) >= RETENTION}

\* get_cache_stats: the keys of the records older than the retention window
old_entries(cache, current_time) ==
    {entry_id \in DOMAIN cache :
        current_time - Get(cache[entry_id], "cached_time", 0) > RETENTION}

\* get_cache_stats: the dictionary after the del loop
evicted(cache, current_time) ==
    [k \in DOMAIN cache \ old_entries(cache, current_time) |-> cache[k]]

\* get_cache_stats: the returned pair
cache_stats(cache, current_time) ==
    LET total_cached == Cardinality(DOMAIN cache)
        n_old == Cardinality(old_entries(cache, current_time))
    IN  <<total_cached - n_old, n_old>>

\* the cache file: missing, holding a JSON object (fingerprint -> record when
\* the program wrote it), or holding text json.load rejects
NoFile == [kind |-> "missing", data |-> EmptyDict]
Unparseable == [kind |-> "unparseable", data |-> EmptyDict]

\* how a _save_cache call can go: the dictionary is dumped; open() fails; or
\* open(..., 'w') has truncated the file and json.dump fails before the end
SaveOutcomes == {"written", "open_failed", "dump_failed"}

\* _save_cache: json.dump of the whole dictionary; every exception is caught
save_cache(f, cache, outcome) ==
    CASE outcome = "written" -> [kind |-> "mapping", data |-> cache]
      [] outcome = "open_failed" -> f
      [] outcome = "dump_failed" -> Unparseable

\* _load_cache: what json.load gives when the file exists and parses, {} for
\* a missing file and after any exception
load_cache(f) == IF f.kind = "mapping" THEN f.data ELSE EmptyDict

\* a JSON value that is not an object, as a value of the loaded dictionary
JsonNumber(n) == [scalar |-> n]
\* a cache file that parses and holds no records: {"k1": 1}
NotRecords == [kind |-> "mapping", data |-> [k \in {"k1"} |-> JsonNumber(1)]]
\* a cache file the program wrote at time 0
RecordFile ==
    [kind |-> "mapping",
     data |-> add_entry_to_cache(EmptyDict, [id |-> "u2", title |-> "a"], 0)]
\* what feed_cache.json can hold when a process starts
StartFiles == {NoFile, Unparseable, NotRecords, RecordFile}

\* get_cache_stats: entry_data.get raises AttributeError on a value that is
\* not a dictionary
get_cache_stats_raises(cache) ==
    \E entry_id \in DOMAIN cache : "scalar" \in DOMAIN cache[entry_id]

(***************************************************************************)
(* Feed entries (feedparser dictionaries; any key may be missing).         *)
(***************************************************************************)
E1 == [id |-> "u1", link |-> "u1", title |-> "a", author |-> "ann",
       published |-> "c", summary |-> "s1"]
E2 == [link |-> "u2", title |-> "a_b", published |-> "c"]
E3 == [title |-> "a_b", published |-> "c"]
\* an empty id falls through to the link: the same hashed string as E1
D1 == [id |-> "", link |-> "u1", title |-> "a_b"]
\* "a" + "_" + "b_c" is the string of E3
D2 == [title |-> "a", published |-> "b_c"]
\* an entry with no field at all
E0 == EmptyDict

PIds == <<"p01", "p02", "p03", "p04", "p05", "p06", "p07", "p08", "p09",
          "p10", "p11">>
P(k) == [id |-> PIds[k], title |-> "a"]

FeedSmall == <<E1, E2, E3>>
FeedDup == <<E1, D1, D2, E0>>
\* one entry more than display_content handles in a run
FeedBig == [k \in 1..(MAX_NEW + 1) |-> P(k)]

FeedCatalogue == {FeedSmall, FeedDup, FeedBig}

(***************************************************************************)
(* What feedparser.parse(url) can give back: an exception, or a feed       *)
(* dictionary with its entries and, when the transport reported one, a     *)
(* status.                                                                 *)
(***************************************************************************)
Raised == [raised |-> TRUE]

\* a feed dictionary, with or without a status
Parsed(es) == [entries |-> es]
ParsedWith(es, st) == [entries |-> es, status |-> st]

ParseResults ==
    {Raised, Parsed(<<>>), ParsedWith(<<>>, HTTP_OK), ParsedWith(<<>>, 404),
     Parsed(FeedSmall), ParsedWith(FeedSmall, 404),
     ParsedWith(FeedDup, HTTP_OK), ParsedWith(FeedBig, HTTP_OK)}

\* Python's None for a feed: a value with no attribute, false as a condition
None == EmptyDict
IsTrue(feed) == DOMAIN feed # {}

\* socket.getdefaulttimeout(): no timeout, or the seconds set
NoTimeout == {}
FETCH_TIMEOUT == 60
\* try_rss_source: the default timeout it leaves.  It is set to 60 before
\* the parse and set back after it, on the path where the parse returned
default_timeout_after(original_timeout, r) ==
    IF "raised" \in DOMAIN r THEN {FETCH_TIMEOUT} ELSE original_timeout

\* faulty variant of try_rss_source: status 200 alone makes a success
try_rss_source_status(r) ==
    IF "raised" \in DOMAIN r THEN [feed |-> None, success |-> FALSE]
    ELSE LET entry_count == IF "entries" \in DOMAIN r THEN Len(r.entries) ELSE 0
         IN  IF ("status" \in DOMAIN r /\ r.status = HTTP_OK) \/ entry_count > 0
                THEN [feed |-> r, success |-> TRUE]
                ELSE [feed |-> None, success |-> FALSE]

\* try_rss_source: the (feed, success) pair returned for a parse result
try_rss_source(r) ==
    IF "raised" \in DOMAIN r THEN [feed |-> None, success |-> FALSE]
    ELSE LET entry_count == IF "entries" \in DOMAIN r THEN Len(r.entries) ELSE 0
         IN  IF "status" \in DOMAIN r /\ r.status = HTTP_OK /\ entry_count > 0
                THEN [feed |-> r, success |-> TRUE]
             ELSE IF entry_count > 0
                THEN [feed |-> r, success |-> TRUE]
             ELSE [feed |-> None, success |-> FALSE]

(***************************************************************************)
(* Configuration (config.yaml): the users, and per platform the ordered    *)
(* rss_url templates.  A template is "<pre>{<field>}<post>"; the code      *)
(* expands it with template.format(username=user.id).                      *)
(***************************************************************************)
Users ==
    <<[id |-> "alice", name |-> "Alice", platform |-> "twitter"],
      [id |-> "carol", name |-> "Carol", platform |-> "mastodon"],
      [id |-> "bob", name |-> "Bob", platform |-> "weibo"]>>

Template(pre, field, post) == [pre |-> pre, field |-> field, post |-> post]

\* twitter has three templates, weibo one, mastodon no rss_url key
ConfigPlain ==
    [platform \in {"twitter", "weibo"} |->
        IF platform = "twitter"
           THEN <<Template("https://bad.example/", "username", ""),
                  Template("https://good.example/", "username", ""),
                  Template("https://rsshub.example/twitter/user/", "username", "/rss")>>
           ELSE <<Template("https://rsshub.example/weibo/user/", "username", "")>>]

\* the same file with an rss_url for mastodon whose placeholder is {user}
ConfigTypo ==
    [platform \in {"twitter", "weibo", "mastodon"} |->
        IF platform = "mastodon"
           THEN <<Template("https://rsshub.example/mastodon/", "user", "")>>
           ELSE ConfigPlain[platform]]

Configs == {ConfigPlain, ConfigTypo}

\* self.config before _load_config returned
NotLoaded == [platform \in {} |-> <<>>]

get_rss_templates_for_platform(cfg, platform) ==
    IF platform \in DOMAIN cfg THEN cfg[platform] ELSE <<>>

\* template.format(username=user.id) raises KeyError for any other field
format_raises(template) == template.field # "username"
format(template, username) == template.pre \o username \o template.post

\* generate_urls_for_user raises when the expansion of a template does
generate_urls_raises(cfg, user) ==
    LET templates == get_rss_templates_for_platform(cfg, user.platform)
    IN  \E k \in 1..Len(templates) : format_raises(templates[k])

generate_urls_for_user(cfg, user) ==
    LET templates == get_rss_templates_for_platform(cfg, user.platform)
    IN  [k \in 1..Len(templates) |-> format(templates[k], user.id)]

(***************************************************************************)
(* NotionManager: construction and connection test.                        *)
(***************************************************************************)
PAGE_OR_DB_ID == "2393c1497bd5808f93a2c7ba9c2d4edd"
\* Python's None for an identifier or a URL
NoneStr == "None"

\* faulty variant of setup_database: a failed databases.create leaves the
\* store enabled
setup_database_unchecked(saved_db_id, saved_ok, direct_ok, page_ok, create_ok) ==
    IF saved_db_id # NoneStr /\ saved_ok
        THEN [enabled |-> TRUE, database_id |-> saved_db_id]
    ELSE IF direct_ok
        THEN [enabled |-> TRUE, database_id |-> PAGE_OR_DB_ID]
    ELSE IF page_ok
        THEN [enabled |-> TRUE,
              database_id |-> IF create_ok THEN "created-db" ELSE NoneStr]
    ELSE [enabled |-> FALSE, database_id |-> NoneStr]

\* _setup_database with force_recreate = False, by the outcome of each call
\* to the store; the result is (enabled, database_id)
setup_database(saved_db_id, saved_ok, direct_ok, page_ok, create_ok) ==
    IF saved_db_id # NoneStr /\ saved_ok
        THEN [enabled |-> TRUE, database_id |-> saved_db_id]
    ELSE IF direct_ok
        THEN [enabled |-> TRUE, database_id |-> PAGE_OR_DB_ID]
    ELSE IF page_ok /\ create_ok
        THEN [enabled |-> TRUE, database_id |-> "created-db"]
    ELSE [enabled |-> FALSE, database_id |-> NoneStr]

\* RSSManager.__init__: enabled after the connection test, which runs when
\* the store is enabled.  src/rsshubai.py only reports a failed test; the
\* modular NotionManager disables the store
after_test_connection(version, is_enabled, retrieved) ==
    IF is_enabled /\ version = "modular" /\ ~retrieved THEN FALSE
    ELSE is_enabled

\* push_entry_to_notion: False when disabled, else whether pages.create
\* went through (every exception is caught and gives False)
push_entry_to_notion(is_enabled, created) ==
    IF ~is_enabled THEN FALSE ELSE created

(***************************************************************************)
(* Text chunking (NotionManager._split_text_to_blocks and                  *)
(* _build_paragraph_blocks).  A text is a sequence of characters.          *)
(***************************************************************************)
\* text[a:b], Python's slice: 0-based, end exclusive, clamped to the text
slice(text, a, b) == SubSeq(text, a + 1, Min(b, Len(text)))

\* faulty variant of segments: a trailing chunk shorter than max_length is
\* not appended
RECURSIVE segments_whole_only(_, _, _)
segments_whole_only(text, i, max_length) ==
    IF i + max_length > Len(text) THEN <<>>
    ELSE <<slice(text, i, i + max_length)>>
            \o segments_whole_only(text, i + max_length, max_length)

\* for i in range(i, len(text), max_length): segments.append(text[i:i+max_length])
RECURSIVE segments(_, _, _)
segments(text, i, max_length) ==
    IF i >= Len(text) THEN <<>>
    ELSE <<slice(text, i, i + max_length)>>
            \o segments(text, i + max_length, max_length)

\* faulty variant of split_text_to_blocks: no early return for the empty text
split_text_to_blocks_no_guard(text, max_length) ==
    IF Len(text) <= max_length THEN <<text>>
    ELSE segments(text, 0, max_length)

split_text_to_blocks(text, max_length) ==
    IF text = <<>> THEN <<>>
    ELSE IF Len(text) <= max_length THEN <<text>>
    ELSE segments(text, 0, max_length)

\* segment.strip(): nothing is left of a segment of white space
strip_is_empty(segment) == \A k \in 1..Len(segment) : segment[k] = " "

\* _build_paragraph_blocks: one paragraph block per non-blank segment of
\* _split_text_to_blocks(text), called with the default max_length
Paragraph(content) == [type |-> "paragraph", content |-> content]
build_paragraph_blocks(text) ==
    LET kept == SelectSeq(split_text_to_blocks(text, MAX_LENGTH),
                          LAMBDA segment : ~strip_is_empty(segment))
    IN  [k \in 1..Len(kept) |-> Paragraph(kept[k])]

\* the texts: every text of at most MaxText characters, and texts around
\* once and twice the default limit
Chars == {"a", " "}
RECURSIVE TextsOfLength(_)
TextsOfLength(n) ==
    IF n = 0 THEN {<<>>}
    ELSE {Append(t, c) : t \in TextsOfLength(n - 1), c \in Chars}
ShortTexts == UNION {TextsOfLength(n) : n \in 0..MaxText}
Pattern == <<"a", "b", "c", " ", "d", "e", "f">>
LongText(n) == [k \in 1..n |-> Pattern[(k % 7) + 1]]
LongTexts == {LongText(n) : n \in {MAX_LENGTH - 1, MAX_LENGTH, MAX_LENGTH + 1,
                                    2 * MAX_LENGTH, 2 * MAX_LENGTH + 1}}


(***************************************************************************)
(* Images of an entry (NotionManager._download_image_from_url,             *)
(* _upload_image_to_notion and the image loop of push_entry_to_notion).    *)
(* An image URL is its host, the base name of its path split at the last   *)
(* dot, and the value of its format query parameter ("" when absent).      *)
(***************************************************************************)
ImageUrl(host, name, suffix, query_format) ==
    [host |-> host, name |-> name, suffix |-> suffix, format |-> query_format]

\* _download_image_from_url: the path the image is saved under, as the
\* directory and the dot-separated parts of the file name
filepath(url) ==
    LET ext == IF url.format # "" THEN url.format ELSE "jpg"
        filename_base ==
            IF url.name = "" /\ url.suffix = "" THEN <<"image">>
            ELSE IF url.suffix = "" THEN <<url.name>>
            ELSE <<url.name, url.suffix>>
        filename == IF url.suffix = ext THEN filename_base
                    ELSE Append(filename_base, ext)
    IN  <<"./downloads">> \o filename

\* how one call of _upload_image_to_notion goes: the download fails, the
\* upload object is refused, sending the content fails, or all three
\* succeed and os.remove then succeeds or fails
UploadOutcomes ==
    {"download_failed", "create_failed", "send_failed", "uploaded",
     "uploaded_remove_failed"}
UploadFailures == {"download_failed", "create_failed", "send_failed"}

\* faulty variant of upload_image_to_notion: a failure is raised to the
\* caller
upload_image_to_notion_raising(image_url, outcome, upload_id, files) ==
    [value |-> IF outcome \in UploadFailures THEN NoneStr ELSE upload_id,
     raised |-> outcome \in UploadFailures,
     files |-> IF outcome \in {"download_failed"} THEN files
               ELSE IF outcome = "uploaded" THEN files \ {filepath(image_url)}
               ELSE files \cup {filepath(image_url)}]

\* _upload_image_to_notion: the value returned and the files of ./downloads
\* afterwards.  The file is removed on the path that returns the upload id
\* only; 'except Exception' returns None and removes nothing
upload_image_to_notion(image_url, outcome, upload_id, files) ==
    [value |-> IF outcome \in UploadFailures THEN NoneStr ELSE upload_id,
     raised |-> FALSE,
     files |-> IF outcome \in {"download_failed"} THEN files
               ELSE IF outcome = "uploaded" THEN files \ {filepath(image_url)}
               ELSE files \cup {filepath(image_url)}]

\* the blocks of the image loop
ImageBlock(file_upload_id) ==
    [type |-> "image", file_upload |-> file_upload_id]
LinkParagraph(img_url) ==
    [type |-> "paragraph",
     rich_text |-> <<[content |-> "image: "],
                     [content |-> img_url, link |-> img_url]>>]
ErrorParagraph(img_url) ==
    [type |-> "paragraph",
     rich_text |-> <<[content |-> <<"image failed: ", img_url>>]>>]

\* one pass of the loop body: the block appended for an image
image_block(img_url, result) ==
    IF result.raised THEN ErrorParagraph(img_url)
    ELSE IF result.value # NoneStr THEN ImageBlock(result.value)
    ELSE LinkParagraph(img_url)

\* the image URLs of the entries: .../x.jpg and .../y?format=png
ImageUrls == {ImageUrl("a", "x", "jpg", ""), ImageUrl("a", "y", "", "png")}
RECURSIVE ListsOfLength(_, _)
ListsOfLength(S, n) ==
    IF n = 0 THEN {<<>>}
    ELSE {Append(l, x) : l \in ListsOfLength(S, n - 1), x \in S}
\* what _extract_image_urls can return: any list, repetitions included
ImageLists == UNION {ListsOfLength(ImageUrls, n) : n \in 0..MaxImages}
\* the link of an entry as urlparse sees it: whether the host starts with
\* www., the rest of the host in lower case, and whether the path contains
\* /status/
Url(www, domain, status) == [www |-> www, domain |-> domain, status |-> status]
\* the empty link
NoLink == Url(FALSE, "", FALSE)

TWITTER_DOMAINS == {"twitter.com", "x.com", "mobile.twitter.com", "m.twitter.com"}

\* NotionManager._is_twitter_url (src/src/notion/notion_manager.py)
is_twitter_url(url) ==
    IF url = NoLink THEN FALSE
    ELSE url.domain \in TWITTER_DOMAINS /\ url.status

\* str.upper on the platform names
upper(platform) ==
    CASE platform = "twitter" -> "TWITTER"
      [] platform = "weibo" -> "WEIBO"
      [] OTHER -> platform

EmbedBlock(url) == [type |-> "embed", url |-> url]
DividerBlock == [type |-> "divider"]

\* the blocks _create_page_with_content adds between the summary and the
\* images: the embedded post and a divider for a Twitter status link; the
\* push_entry_to_notion of src/rsshubai.py adds none
embed_blocks(version, platform, url) ==
    IF version = "modular" /\ upper(platform) = "TWITTER" /\ url # NoLink
       /\ is_twitter_url(url)
        THEN <<EmbedBlock(url), DividerBlock>>
    ELSE <<>>

\* the platform and link of the entries pushed: a Twitter status link, and
\* for _create_page_with_content also a link to another host and a Weibo
\* entry (push_entry_to_notion of src/rsshubai.py puts neither in a block)
PushTargets(version) ==
    IF version = "rsshubai" THEN {<<"twitter", Url(TRUE, "x.com", TRUE)>>}
    ELSE {<<"twitter", Url(TRUE, "x.com", TRUE)>>,
          <<"twitter", Url(FALSE, "nitter.net", TRUE)>>,
          <<"weibo", Url(FALSE, "twitter.com", TRUE)>>}

\* the ids Notion gives to upload objects
UploadIds == {"f1"}
\* the cleaned summaries of the entries
Summaries == {<<>>, <<"a">>}

(***************************************************************************)
(* State.                                                                  *)
(***************************************************************************)
VARIABLES
    impl,           \* which orchestrator runs: "rsshubai" or "modular"
    pc,             \* where the process is
    procs,          \* process runs so far
    config,         \* SocialMediaConfig.config: platform -> rss_url templates
    now,            \* time.time(), in seconds
    file,           \* feed_cache.json
    cache_data,     \* CacheManager.cache_data
    enabled,        \* NotionManager.enabled
    database_id,    \* NotionManager.database_id
    uidx,           \* monitor_all_users: index of the user being handled
    success_count,  \* monitor_all_users: users whose content was obtained
    last,           \* how the most recent user's run ended
    urls,           \* fetch_user_content: the candidate URLs
    attempted,      \* the try_rss_source calls of this fetch, in order: the
                    \* URL, whether the parser raised, the success returned
    lastParse,      \* what the last feedparser.parse returned
    lastReturn,     \* what the last try_rss_source returned
    default_timeout,\* the socket module's default timeout of the process
    feed,           \* fetch_user_content: returned feed (None when not found)
    source,         \* fetch_user_content: second component of the result
    new_entries,    \* entries classified new by the run
    cached_entries_count,
    i,              \* 1-based index of the publishing loop
    notion_success_count,
    pushed,         \* entries push_entry_to_notion was called with, in order
    run0,           \* cache and file as the user's run found them
    calls,          \* the NotionManager and CacheManager calls of the user's
                    \* run, in order, each with the index of its entry in
                    \* the publishing loop
    ranFeeds,       \* <<entries, new entries left unhandled>> of the runs
                    \* completed since the cache last lost a record
    ret,            \* CacheManager alone: the last call and what it returned
    inserted,       \* CacheManager alone: fingerprint -> time of the latest
                    \* add_entry_to_cache under it, and the entries recorded
                    \* under it so far
    entry_platform, \* push_entry_to_notion: the platform argument
    original_url,   \* push_entry_to_notion: the link of the entry
    summary,        \* push_entry_to_notion: the cleaned summary of the entry
    image_urls,     \* push_entry_to_notion: the image URLs of the entry
    img,            \* 1-based index of the image loop
    children,       \* push_entry_to_notion: the blocks of the page
    downloads,      \* the files of ./downloads
    page_requests   \* the children client.pages.create was called with by
                    \* this push_entry_to_notion

procVars == <<impl, pc, procs, config>>
cacheVars == <<file, cache_data>>
notionVars == <<enabled, database_id>>
monVars == <<uidx, success_count, last>>
fetchVars == <<urls, attempted, lastParse, lastReturn, default_timeout, feed,
              source>>
runVars == <<new_entries, cached_entries_count, i, notion_success_count,
             pushed, run0, calls>>
pushVars == <<entry_platform, original_url, summary, image_urls, img, children,
              downloads, page_requests>>

vars == <<impl, pc, procs, config, now, file, cache_data, enabled, database_id,
          uidx, success_count, last, urls, attempted, lastParse, lastReturn,
          default_timeout, feed, source,
          new_entries, cached_entries_count, i, notion_success_count, pushed,
          run0, calls, ranFeeds, ret, inserted, entry_platform, original_url,
          summary, image_urls, img, children, downloads, page_requests>>

\* the times the clock is observed at
TimePoints == {0, 29 * Day, RETENTION, 31 * Day}
\* the times the pipeline reads the clock at
ClockTimes == {0, 1, RETENTION + 1}

NoReturn == [feed |-> None, success |-> FALSE]
NoCall == [op |-> "none"]

\* nothing constructed yet, f on disk as the cache file
BootOn(at, f) ==
    /\ pc = at
    /\ procs = 1
    /\ config = NotLoaded
    /\ now = 0
    /\ file = f
    /\ cache_data = EmptyDict
    /\ enabled = FALSE
    /\ database_id = NoneStr
    /\ uidx = 1
    /\ success_count = 0
    /\ last = "none"
    /\ urls = <<>>
    /\ attempted = <<>>
    /\ lastParse = None
    /\ lastReturn = NoReturn
    /\ default_timeout = NoTimeout
    /\ feed = None
    /\ source = NoneStr
    /\ new_entries = <<>>
    /\ cached_entries_count = 0
    /\ i = 1
    /\ notion_success_count = 0
    /\ pushed = <<>>
    /\ run0 = [cache |-> EmptyDict, file |-> f]
    /\ calls = <<>>
    /\ ranFeeds = {}
    /\ ret = NoCall
    /\ inserted = EmptyDict
    /\ entry_platform = NoneStr
    /\ original_url = NoLink
    /\ summary = <<>>
    /\ image_urls = <<>>
    /\ img = 1
    /\ children = <<>>
    /\ downloads = {}
    /\ page_requests = <<>>

\* nothing constructed yet, no cache file on disk
Boot(at) == BootOn(at, NoFile)

Init ==
    /\ impl \in {"rsshubai", "modular"}
    /\ Boot("start")

(***************************************************************************)
(* Construction: SocialMediaMonitor.__init__ and RSSManager.__init__.      *)
(***************************************************************************)
\* SocialMediaConfig._load_config: a missing or unreadable config.yaml ends
\* the process with sys.exit(1)
SocialMediaConfig_init ==
    /\ pc = "start"
    /\ \/ pc' = "aborted" /\ UNCHANGED config
       \/ \E cfg \in Configs : config' = cfg /\ pc' = "cache_init"
    /\ UNCHANGED <<pushVars, impl, procs, now, cacheVars, notionVars, monVars,
                   fetchVars, runVars, ranFeeds, ret, inserted>>

\* CacheManager.__init__: cache_data = _load_cache()
CacheManager_init ==
    /\ pc = "cache_init"
    /\ cache_data' = load_cache(file)
    /\ pc' = "notion_init"
    /\ UNCHANGED <<pushVars, impl, procs, config, now, file, notionVars, monVars, fetchVars,
                   runVars, ranFeeds, ret, inserted>>

\* NotionManager.__init__: no key or a failing client disables the store,
\* otherwise _setup_database decides
NotionManager_init ==
    /\ pc = "notion_init"
    /\ \E notion_key, client_ok, saved_ok, direct_ok, page_ok, create_ok \in BOOLEAN,
          saved_db_id \in {NoneStr, "saved-db"} :
          LET r == IF notion_key /\ client_ok
                      THEN setup_database(saved_db_id, saved_ok, direct_ok,
                                          page_ok, create_ok)
                      ELSE [enabled |-> FALSE, database_id |-> NoneStr]
          IN  /\ enabled' = r.enabled
              /\ database_id' = r.database_id
    /\ pc' = "cache_stats"
    /\ UNCHANGED <<pushVars, impl, procs, config, now, cacheVars, monVars, fetchVars, runVars,
                   ranFeeds, ret, inserted>>

\* RSSManager.__init__: the eviction pass; the file is rewritten only when
\* something was removed.  An exception of the pass is caught nowhere below
\* main, which ends the process with sys.exit(1)
get_cache_stats ==
    /\ pc = "cache_stats"
    /\ IF get_cache_stats_raises(cache_data)
          THEN /\ pc' = "aborted"
               /\ UNCHANGED <<cache_data, file, ranFeeds>>
          ELSE /\ cache_data' = evicted(cache_data, now)
               /\ IF old_entries(cache_data, now) # {}
                     THEN /\ \E written \in SaveOutcomes :
                                file' = save_cache(file, evicted(cache_data, now),
                                                   written)
                          /\ ranFeeds' = {}
                     ELSE UNCHANGED <<file, ranFeeds>>
               /\ pc' = "test_conn"
    /\ UNCHANGED <<pushVars, impl, procs, config, now, notionVars, monVars, fetchVars, runVars,
                   ret, inserted>>

\* RSSManager.__init__: test_connection is called when the store is enabled.
\* src/rsshubai.py only reports; the modular NotionManager disables the
\* store when the retrieve call fails
test_connection ==
    /\ pc = "test_conn"
    /\ \E retrieved \in BOOLEAN :
          enabled' = after_test_connection(impl, enabled, retrieved)
    /\ pc' = "monitor"
    /\ UNCHANGED <<pushVars, impl, procs, config, now, cacheVars, database_id, monVars,
                   fetchVars, runVars, ranFeeds, ret, inserted>>

(***************************************************************************)
(* fetch_user_content.                                                     *)
(***************************************************************************)
\* monitor_all_users takes the next user; fetch_user_content expands the
\* platform's templates.  With no URL the loop body never runs and the
\* result is (None, None).  An exception of template.format is caught
\* nowhere below main, which ends the process with sys.exit(1)
fetch_user_content ==
    /\ pc = "monitor"
    /\ uidx <= Len(Users)
    /\ attempted' = <<>>
    /\ lastParse' = None
    /\ lastReturn' = NoReturn
    /\ feed' = None
    /\ source' = NoneStr
    /\ new_entries' = <<>>
    /\ cached_entries_count' = 0
    /\ i' = 1
    /\ notion_success_count' = 0
    /\ pushed' = <<>>
    /\ run0' = [cache |-> cache_data, file |-> file]
    /\ calls' = <<>>
    /\ IF generate_urls_raises(config, Users[uidx])
          THEN /\ urls' = <<>>
               /\ pc' = "aborted"
          ELSE /\ urls' = generate_urls_for_user(config, Users[uidx])
               /\ pc' = IF generate_urls_for_user(config, Users[uidx]) = <<>>
                           THEN "fetched" ELSE "fetching"
    /\ UNCHANGED <<pushVars, impl, procs, config, now, cacheVars, notionVars, monVars,
                   default_timeout, ranFeeds, ret, inserted>>

\* faulty variants of accepts: the loop never returns early; the loop returns
\* after its first iteration whatever came back
accepts_never(version, r) == FALSE
accepts_always(version, r) == TRUE

\* whether fetch_user_content takes a try_rss_source result as the feed:
\* "if success" in src/rsshubai.py, "if success and feed" in the modular one
accepts(version, r) ==
    IF version = "rsshubai" THEN r.success ELSE r.success /\ IsTrue(r.feed)

\* one iteration of the candidate loop: try_rss_source on the next URL, then
\* return on success, go on to the next URL, or fall out of the loop (what
\* the call does to the socket module is followed by unit_try_rss_source)
try_source ==
    /\ pc = "fetching"
    /\ LET k == Len(attempted) + 1
       IN  \E r \in ParseResults :
              LET rv == try_rss_source(r)
              IN  /\ attempted' = Append(attempted,
                                          [url |-> urls[k],
                                           raised |-> "raised" \in DOMAIN r,
                                           success |-> rv.success])
                  /\ lastParse' = r
                  /\ lastReturn' = rv
                  /\ IF accepts(impl, rv)
                        THEN /\ feed' = rv.feed
                             /\ source' = IF impl = "rsshubai"
                                             THEN Users[uidx].platform
                                             ELSE urls[k]
                             /\ pc' = "fetched"
                        ELSE /\ feed' = None
                             /\ source' = NoneStr
                             /\ pc' = IF k = Len(urls) THEN "fetched" ELSE "fetching"
    /\ UNCHANGED <<pushVars, impl, procs, config, now, cacheVars, notionVars, monVars, urls,
                   default_timeout, runVars, ranFeeds, ret, inserted>>

\* faulty variant of no_feed: the user is skipped whatever was fetched
no_feed_always ==
    /\ pc = "fetched"
    /\ last' = "failed"
    /\ UNCHANGED success_count
    /\ uidx' = uidx + 1
    /\ pc' = "monitor"
    /\ UNCHANGED <<pushVars, impl, procs, config, now, cacheVars, notionVars, fetchVars,
                   runVars, ranFeeds, ret, inserted>>

\* monitor_all_users: "if feed and platform" is false, the user is skipped
no_feed ==
    /\ pc = "fetched"
    /\ ~(IsTrue(feed) /\ source # NoneStr)
    /\ last' = "failed"
    /\ UNCHANGED success_count
    /\ uidx' = uidx + 1
    /\ pc' = "monitor"
    /\ UNCHANGED <<pushVars, impl, procs, config, now, cacheVars, notionVars, fetchVars,
                   runVars, ranFeeds, ret, inserted>>

(***************************************************************************)
(* Filtering and publishing.                                               *)
(***************************************************************************)
\* faulty variant of filter_new: the cache is not consulted
filter_new_unchecked(cache, entries) == entries

\* faulty variant of filter_new: an entry is recorded as it is classified,
\* so a later entry of the feed with the same fingerprint is found cached
filter_new_recording(cache, entries) ==
    LET positions == {k \in 1..Len(entries) :
                         /\ ~is_entry_cached(cache, entries[k])
                         /\ \A j \in 1..(k - 1) :
                               generate_entry_id(entries[j]) #
                                  generate_entry_id(entries[k])}
        pick[k \in 0..Len(entries)] ==
            IF k = 0 THEN <<>>
            ELSE IF k \in positions THEN Append(pick[k - 1], entries[k])
            ELSE pick[k - 1]
    IN  pick[Len(entries)]

\* the filter loop of display_content / process_user_content
filter_new(cache, entries) ==
    SelectSeq(entries, LAMBDA entry : ~is_entry_cached(cache, entry))

\* the entries the publishing loop iterates over: new_entries[:10] in
\* display_content, all of new_entries in process_user_content
todo(version, new) ==
    IF version = "rsshubai" THEN SubSeq(new, 1, Min(MAX_NEW, Len(new))) ELSE new

\* the calls a run makes on NotionManager and CacheManager
PushCall(k) == [op |-> "push_entry_to_notion", k |-> k]
RecordCall(k) == [op |-> "add_entry_to_cache", k |-> k]
SaveCall == [op |-> "save", k |-> 0]

\* faulty variant of iteration_calls: the cache is saved after each entry
iteration_calls_saving(is_enabled, k) ==
    (IF is_enabled THEN <<PushCall(k)>> ELSE <<>>) \o <<RecordCall(k), SaveCall>>

\* faulty variant of iteration_calls: the entry is recorded before its push
iteration_calls_record_first(is_enabled, k) ==
    <<RecordCall(k)>> \o (IF is_enabled THEN <<PushCall(k)>> ELSE <<>>)

\* the body of the publishing loop for the k-th entry: push_entry_to_notion
\* when the store is enabled, then add_entry_to_cache
iteration_calls(is_enabled, k) ==
    (IF is_enabled THEN <<PushCall(k)>> ELSE <<>>) \o <<RecordCall(k)>>

\* bookkeeping of the completed runs (not program state)
RecordRun(runs, entries, left) ==
    {p \in runs : p[1] # entries} \cup {<<entries, left>>}

\* display_content up to the publishing loop (src/rsshubai.py)
display_content ==
    /\ pc = "fetched"
    /\ impl = "rsshubai"
    /\ IsTrue(feed) /\ source # NoneStr
    /\ LET entries == Get(feed, "entries", <<>>)
           new == filter_new(cache_data, entries)
       IN  /\ new_entries' = new
           /\ cached_entries_count' = Len(entries) - Len(new)
           /\ IF new = <<>>
                 THEN /\ pc' = "monitor"
                      /\ last' = "nonew"
                      /\ success_count' = success_count + 1
                      /\ uidx' = uidx + 1
                      /\ ranFeeds' = RecordRun(ranFeeds, entries, 0)
                 ELSE /\ pc' = "publishing"
                      /\ UNCHANGED <<monVars, ranFeeds>>
    /\ i' = 1
    /\ notion_success_count' = 0
    /\ UNCHANGED <<pushVars, impl, procs, config, now, cacheVars, notionVars, fetchVars,
                   pushed, run0, calls, ret, inserted>>

\* faulty variant of display_content_entry: a failed push ends the process
\* instead of being counted
display_content_entry_abort ==
    /\ pc = "publishing"
    /\ impl = "rsshubai"
    /\ i <= Len(todo(impl, new_entries))
    /\ LET entry == todo(impl, new_entries)[i]
       IN  \E created \in (IF enabled THEN BOOLEAN ELSE {FALSE}) :
              LET success == push_entry_to_notion(enabled, created)
              IN  /\ notion_success_count' =
                         IF enabled /\ success
                            THEN notion_success_count + 1
                            ELSE notion_success_count
                  /\ pushed' = IF enabled THEN Append(pushed, entry) ELSE pushed
                  /\ IF enabled /\ ~success
                        THEN /\ pc' = "aborted"
                             /\ calls' = Append(calls, PushCall(i))
                             /\ UNCHANGED <<cache_data, i>>
                        ELSE /\ pc' = pc
                             /\ cache_data' = add_entry_to_cache(cache_data, entry, now)
                             /\ calls' = calls \o iteration_calls(enabled, i)
                             /\ i' = i + 1
    /\ UNCHANGED <<pushVars, impl, procs, config, now, file, notionVars, monVars, fetchVars,
                   new_entries, cached_entries_count, run0, ranFeeds, ret,
                   inserted>>

\* one iteration of the loop over new_entries[:10]: format, push when the
\* store is enabled, record in the cache
display_content_entry ==
    /\ pc = "publishing"
    /\ impl = "rsshubai"
    /\ i <= Len(todo(impl, new_entries))
    /\ LET entry == todo(impl, new_entries)[i]
       IN  /\ \E created \in (IF enabled THEN BOOLEAN ELSE {FALSE}) :
                  LET success == push_entry_to_notion(enabled, created)
                  IN  notion_success_count' =
                         IF enabled /\ success
                            THEN notion_success_count + 1
                            ELSE notion_success_count
           /\ pushed' = IF enabled THEN Append(pushed, entry) ELSE pushed
           /\ cache_data' = add_entry_to_cache(cache_data, entry, now)
    /\ calls' = calls \o iteration_calls(enabled, i)
    /\ i' = i + 1
    /\ UNCHANGED <<pushVars, impl, pc, procs, config, now, file, notionVars, monVars, fetchVars,
                   new_entries, cached_entries_count, run0, ranFeeds, ret, inserted>>

\* after the loop: cache_manager.save(), and monitor_all_users counts the user
display_content_save ==
    /\ pc = "publishing"
    /\ impl = "rsshubai"
    /\ i > Len(todo(impl, new_entries))
    /\ \E written \in SaveOutcomes : file' = save_cache(file, cache_data, written)
    /\ last' = "done"
    /\ success_count' = success_count + 1
    /\ uidx' = uidx + 1
    /\ pc' = "monitor"
    /\ ranFeeds' = RecordRun(ranFeeds, Get(feed, "entries", <<>>),
                             Len(new_entries) - Len(todo(impl, new_entries)))
    /\ calls' = Append(calls, SaveCall)
    /\ UNCHANGED <<pushVars, impl, procs, config, now, cache_data, notionVars, fetchVars,
                   new_entries, cached_entries_count, i, notion_success_count,
                   pushed, run0, ret, inserted>>

\* process_user_content up to the publishing loop (modular version)
process_user_content ==
    /\ pc = "fetched"
    /\ impl = "modular"
    /\ IsTrue(feed) /\ source # NoneStr
    /\ LET invalid == ~IsTrue(feed) \/ "entries" \notin DOMAIN feed
           entries == Get(feed, "entries", <<>>)
           new == IF invalid THEN <<>> ELSE filter_new(cache_data, entries)
       IN  /\ new_entries' = new
           /\ cached_entries_count' = Len(entries) - Len(new)
           /\ IF invalid \/ Len(entries) = 0 \/ Len(new) = 0
                 THEN /\ pc' = "monitor"
                      /\ last' = "nonew"
                      /\ success_count' = success_count + 1
                      /\ uidx' = uidx + 1
                      /\ ranFeeds' = RecordRun(ranFeeds, entries, 0)
                 ELSE /\ pc' = "publishing"
                      /\ UNCHANGED <<monVars, ranFeeds>>
    /\ i' = 1
    /\ notion_success_count' = 0
    /\ UNCHANGED <<pushVars, impl, procs, config, now, cacheVars, notionVars, fetchVars,
                   pushed, run0, calls, ret, inserted>>

\* faulty variant of process_user_content_entry: the entry is recorded only
\* when its push succeeded
process_user_content_entry_on_success ==
    /\ pc = "publishing"
    /\ impl = "modular"
    /\ i <= Len(todo(impl, new_entries))
    /\ LET entry == todo(impl, new_entries)[i]
       IN  \E created \in (IF enabled THEN BOOLEAN ELSE {FALSE}) :
              LET success == push_entry_to_notion(enabled, created)
              IN  /\ notion_success_count' =
                         IF enabled /\ success
                            THEN notion_success_count + 1
                            ELSE notion_success_count
                  /\ pushed' = IF enabled THEN Append(pushed, entry) ELSE pushed
                  /\ cache_data' = IF success
                                      THEN add_entry_to_cache(cache_data, entry, now)
                                      ELSE cache_data
                  /\ calls' = IF success
                                 THEN calls \o iteration_calls(enabled, i)
                                 ELSE calls \o (IF enabled THEN <<PushCall(i)>>
                                                ELSE <<>>)
    /\ i' = i + 1
    /\ UNCHANGED <<pushVars, impl, pc, procs, config, now, file, notionVars, monVars, fetchVars,
                   new_entries, cached_entries_count, run0, ranFeeds, ret,
                   inserted>>

\* one iteration of the loop over new_entries
process_user_content_entry ==
    /\ pc = "publishing"
    /\ impl = "modular"
    /\ i <= Len(todo(impl, new_entries))
    /\ LET entry == todo(impl, new_entries)[i]
       IN  /\ \E created \in (IF enabled THEN BOOLEAN ELSE {FALSE}) :
                  LET success == push_entry_to_notion(enabled, created)
                  IN  notion_success_count' =
                         IF enabled /\ success
                            THEN notion_success_count + 1
                            ELSE notion_success_count
           /\ pushed' = IF enabled THEN Append(pushed, entry) ELSE pushed
           /\ cache_data' = add_entry_to_cache(cache_data, entry, now)
    /\ calls' = calls \o iteration_calls(enabled, i)
    /\ i' = i + 1
    /\ UNCHANGED <<pushVars, impl, pc, procs, config, now, file, notionVars, monVars, fetchVars,
                   new_entries, cached_entries_count, run0, ranFeeds, ret, inserted>>

\* after the loop: cache_manager.save()
process_user_content_save ==
    /\ pc = "publishing"
    /\ impl = "modular"
    /\ i > Len(todo(impl, new_entries))
    /\ \E written \in SaveOutcomes : file' = save_cache(file, cache_data, written)
    /\ last' = "done"
    /\ success_count' = success_count + 1
    /\ uidx' = uidx + 1
    /\ pc' = "monitor"
    /\ ranFeeds' = RecordRun(ranFeeds, Get(feed, "entries", <<>>),
                             Len(new_entries) - Len(todo(impl, new_entries)))
    /\ calls' = Append(calls, SaveCall)
    /\ UNCHANGED <<pushVars, impl, procs, config, now, cache_data, notionVars, fetchVars,
                   new_entries, cached_entries_count, i, notion_success_count,
                   pushed, run0, ret, inserted>>

(***************************************************************************)
(* The monitor loop, the clock and the next process.                       *)
(***************************************************************************)
\* monitor_all_users: no user is left, main returns and the process ends
monitor_done ==
    /\ pc = "monitor"
    /\ uidx > Len(Users)
    /\ pc' = "exited"
    /\ UNCHANGED <<pushVars, impl, procs, config, now, cacheVars, notionVars, monVars,
                   fetchVars, runVars, ranFeeds, ret, inserted>>

\* time passes between two processes (a process run is short against the
\* retention window)
Tick ==
    /\ pc = "exited"
    /\ \E t \in ClockTimes : t > now /\ now' = t
    /\ UNCHANGED <<pushVars, procVars, cacheVars, notionVars, monVars, fetchVars,
                   runVars, ranFeeds, ret, inserted>>

\* the program is started again: nothing in memory survives, the file does
\* (records whose save failed are lost with the memory)
Restart ==
    /\ pc \in {"exited", "aborted"}
    /\ procs < MaxProcs
    /\ procs' = procs + 1
    /\ pc' = "start"
    /\ config' = NotLoaded
    /\ cache_data' = EmptyDict
    /\ enabled' = FALSE
    /\ database_id' = NoneStr
    /\ uidx' = 1
    /\ success_count' = 0
    /\ last' = "none"
    /\ urls' = <<>>
    /\ attempted' = <<>>
    /\ lastParse' = None
    /\ lastReturn' = NoReturn
    /\ default_timeout' = NoTimeout
    /\ feed' = None
    /\ source' = NoneStr
    /\ new_entries' = <<>>
    /\ cached_entries_count' = 0
    /\ i' = 1
    /\ notion_success_count' = 0
    /\ pushed' = <<>>
    /\ run0' = [cache |-> EmptyDict, file |-> file]
    /\ calls' = <<>>
    /\ ranFeeds' = IF DOMAIN cache_data \subseteq DOMAIN load_cache(file)
                      THEN ranFeeds ELSE {}
    /\ UNCHANGED <<pushVars, impl, now, file, ret, inserted>>

Next ==
    \/ SocialMediaConfig_init
    \/ CacheManager_init
    \/ NotionManager_init
    \/ get_cache_stats
    \/ test_connection
    \/ fetch_user_content
    \/ try_source
    \/ no_feed
    \/ display_content
    \/ display_content_entry
    \/ display_content_save
    \/ process_user_content
    \/ process_user_content_entry
    \/ process_user_content_save
    \/ monitor_done
    \/ Tick
    \/ Restart

Spec == Init /\ [][Next]_vars

(***************************************************************************)
(* Publishing one entry after another with an enabled NotionManager: the   *)
(* page content of push_entry_to_notion, one step per image.               *)
(***************************************************************************)
InitPush ==
    /\ impl \in {"rsshubai", "modular"}
    /\ Boot("push")

\* push_entry_to_notion up to the image loop: children holds the paragraph
\* blocks of the summary and, in _create_page_with_content, the embedded
\* post and the divider
push_entry_summary ==
    /\ pc = "push"
    /\ \E text \in Summaries, extracted \in ImageLists,
          target \in PushTargets(impl) :
          /\ entry_platform' = target[1]
          /\ original_url' = target[2]
          /\ summary' = text
          /\ image_urls' = extracted
          /\ children' = (IF text # <<>> THEN build_paragraph_blocks(text)
                          ELSE <<>>)
                         \o embed_blocks(impl, target[1], target[2])
    /\ img' = 1
    /\ page_requests' = <<>>
    /\ ret' = NoCall
    /\ pc' = "push_images"
    /\ UNCHANGED <<impl, procs, config, now, cacheVars, notionVars, monVars,
                   fetchVars, runVars, ranFeeds, inserted, downloads>>

\* faulty variant of push_image: the loop runs over all of image_urls
push_image_uncapped ==
    /\ pc = "push_images"
    /\ img <= Len(image_urls)
    /\ \E outcome \in UploadOutcomes, upload_id \in UploadIds :
          LET img_url == image_urls[img]
              result == upload_image_to_notion(img_url, outcome, upload_id,
                                               downloads)
          IN  /\ children' = Append(children, image_block(img_url, result))
              /\ downloads' = result.files
              /\ ret' = [op |-> "upload_image_to_notion",
                         image_url |-> img_url, outcome |-> outcome,
                         value |-> result.value, raised |-> result.raised,
                         local_path |-> filepath(img_url)]
    /\ img' = img + 1
    /\ UNCHANGED <<procVars, now, cacheVars, notionVars, monVars, fetchVars,
                   runVars, ranFeeds, inserted, entry_platform, original_url,
                   summary, image_urls, page_requests>>

\* one pass of 'for img_url in image_urls[:5]': the upload and the block
\* appended for it
push_image ==
    /\ pc = "push_images"
    /\ img <= Min(Len(image_urls), IMAGE_CAP)
    /\ \E outcome \in UploadOutcomes, upload_id \in UploadIds :
          LET img_url == image_urls[img]
              result == upload_image_to_notion(img_url, outcome, upload_id,
                                               downloads)
          IN  /\ children' = Append(children, image_block(img_url, result))
              /\ downloads' = result.files
              /\ ret' = [op |-> "upload_image_to_notion",
                         image_url |-> img_url, outcome |-> outcome,
                         value |-> result.value, raised |-> result.raised,
                         local_path |-> filepath(img_url)]
    /\ img' = img + 1
    /\ UNCHANGED <<procVars, now, cacheVars, notionVars, monVars, fetchVars,
                   runVars, ranFeeds, inserted, entry_platform, original_url,
                   summary, image_urls, page_requests>>

\* client.pages.create after the loop: True when the page was created, False
\* when the call raised.  The locals are gone when the function returns.
\* push_entry_to_notion of src/rsshubai.py is followed entry after entry (the
\* files of ./downloads stay), _create_page_with_content for one entry
pages_create ==
    /\ pc = "push_images"
    /\ img > Min(Len(image_urls), IMAGE_CAP)
    /\ page_requests' = Append(page_requests, children)
    /\ \E created \in BOOLEAN :
          ret' = [op |-> "push_entry_to_notion",
                  value |-> push_entry_to_notion(TRUE, created)]
    /\ entry_platform' = NoneStr
    /\ original_url' = NoLink
    /\ summary' = <<>>
    /\ image_urls' = <<>>
    /\ img' = 1
    /\ children' = <<>>
    /\ pc' = IF impl = "rsshubai" THEN "push" ELSE "pushed"
    /\ UNCHANGED <<impl, procs, config, now, cacheVars, notionVars, monVars,
                   fetchVars, runVars, ranFeeds, inserted, downloads>>

NextPush ==
    \/ push_entry_summary
    \/ push_image
    \/ pages_create

SpecPush == InitPush /\ [][NextPush]_vars

(***************************************************************************)
(* try_rss_source alone, on any URL the templates give for any user id,    *)
(* with the default timeout of the socket module.                          *)
(***************************************************************************)
FetchUrls ==
    UNION {{format(ConfigPlain[platform][k], Users[u].id) :
                k \in 1..Len(ConfigPlain[platform]), u \in 1..Len(Users)} :
           platform \in DOMAIN ConfigPlain}

InitFetch ==
    /\ impl \in {"rsshubai", "modular"}
    /\ Boot("fetch")

unit_try_rss_source ==
    /\ pc = "fetch"
    /\ \E url \in FetchUrls, r \in ParseResults :
          /\ ret' = [op |-> "try_rss_source", url |-> url,
                     original_timeout |-> default_timeout,
                     raised |-> "raised" \in DOMAIN r,
                     value |-> try_rss_source(r)]
          /\ default_timeout' = default_timeout_after(default_timeout, r)
    /\ UNCHANGED <<pushVars, procVars, now, cacheVars, notionVars, monVars,
                   urls, attempted, lastParse, lastReturn, feed, source,
                   runVars, ranFeeds, inserted>>

NextFetch == unit_try_rss_source

SpecFetch == InitFetch /\ [][NextFetch]_vars

(***************************************************************************)
(* One entry through the publishing loop: what push_entry_to_notion        *)
(* prepares from the entry before it asks the store for a page.            *)
(***************************************************************************)
\* the defaults of push_entry_to_notion and the current time it falls back to
NO_TITLE == "no-title"
NO_SUMMARY == "no-summary"
NOW_ISO == "now"
USER_NAME == "ann-display"

\* value[:100] on a short value; slicing None raises TypeError
sliceable(value) == value # NoneStr

\* _clean_text and _parse_published_time on a value without markup
clean_text(text) == IF text = "" \/ text = NoneStr THEN "" ELSE text
parse_published_time(published_str) ==
    IF published_str = "" \/ published_str = NoneStr THEN NOW_ISO
    ELSE published_str

\* the `properties` push_entry_to_notion builds from an entry, or the
\* exception its preparation raises
page_properties(entry, user_name) ==
    LET title == Get(entry, "title", NO_TITLE)
        url == Get(entry, "link", "")
        author == Get(entry, "author", user_name)
    IN  IF ~sliceable(title) \/ ~sliceable(author) THEN Raised
        ELSE [title |-> title,
              url |-> IF url # "" /\ url # NoneStr THEN url ELSE NoneStr,
              author |-> author,
              published |-> parse_published_time(Get(entry, "published", "")),
              summary |-> clean_text(Get(entry, "summary", NO_SUMMARY))]

\* the pages.create requests of one push_entry_to_notion call: none when
\* the store is disabled or the preparation raised
create_requests(is_enabled, entry, user_name) ==
    LET properties == page_properties(entry, user_name)
    IN  IF ~is_enabled \/ properties = Raised THEN <<>> ELSE <<properties>>

\* a field of an entry: absent, empty, null, or a value
FieldValues(value) == {"absent", "", NoneStr, value}
EntryWith(vid, vlink, vtitle, vauthor, vpublished, vsummary) ==
    LET all == [id |-> vid, link |-> vlink, title |-> vtitle,
                author |-> vauthor, published |-> vpublished,
                summary |-> vsummary]
    IN  [k \in {f \in DOMAIN all : all[f] # "absent"} |-> all[k]]
MalformedEntries ==
    {EntryWith(vid, vlink, vtitle, vauthor, vpublished, vsummary) :
        vid \in FieldValues("u1"), vlink \in FieldValues("u2"),
        vtitle \in FieldValues("a"), vauthor \in FieldValues("ann"),
        vpublished \in FieldValues("c"), vsummary \in FieldValues("s1")}

InitEntry ==
    /\ impl = "rsshubai"
    /\ Boot("entry")

\* display_content on a feed of one entry in a process that starts with no
\* cache file: the filter, then the one iteration of the publishing loop
unit_display_entry ==
    /\ pc = "entry"
    /\ \E entry \in MalformedEntries, is_enabled \in BOOLEAN,
          created \in BOOLEAN :
          LET new == filter_new(cache_data, <<entry>>)
              requests == create_requests(is_enabled, entry, USER_NAME)
          IN  /\ new_entries' = new
              /\ cached_entries_count' = 1 - Len(new)
              /\ ret' = [op |-> "display_content", entry |-> entry,
                         is_enabled |-> is_enabled,
                         requests |-> requests,
                         value |-> push_entry_to_notion(is_enabled, created)
                                      /\ requests # <<>>]
              /\ cache_data' = add_entry_to_cache(cache_data, entry, now)
              /\ calls' = iteration_calls(is_enabled, 1)
              /\ i' = 2
    /\ pc' = "recorded"
    /\ UNCHANGED <<pushVars, impl, procs, config, now, file, notionVars,
                   monVars, fetchVars, notion_success_count, pushed, run0,
                   ranFeeds, inserted>>

NextEntry == unit_display_entry

SpecEntry == InitEntry /\ [][NextEntry]_vars

(***************************************************************************)
(* display_content / process_user_content alone, as one step from the      *)
(* fetched feed to the saved cache, on feeds that repeat a fingerprint.    *)
(***************************************************************************)
\* twelve entries; the last two have the fingerprint of p11
FeedTail ==
    [k \in 1..(MAX_NEW + 2) |->
        IF k <= MAX_NEW + 1 THEN P(k)
        ELSE [id |-> PIds[MAX_NEW + 1], title |-> "a_b"]]

FilterFeeds == {FeedSmall, FeedDup, FeedBig, FeedTail}

\* the add_entry_to_cache calls of the publishing loop, in order
RECURSIVE record_all(_, _, _)
record_all(cache, entries, t) ==
    IF entries = <<>> THEN cache
    ELSE record_all(add_entry_to_cache(cache, Head(entries), t),
                    Tail(entries), t)

InitFilter ==
    /\ impl \in {"rsshubai", "modular"}
    /\ Boot("filter")

\* the whole of display_content (src/rsshubai.py) or process_user_content
\* (modular version) on a fetched feed: filter, publishing loop, save
unit_display_content ==
    /\ pc = "filter"
    /\ \E entries \in FilterFeeds, is_enabled \in BOOLEAN :
          LET new == filter_new(cache_data, entries)
              handled == todo(impl, new)
              recorded == record_all(cache_data, handled, now)
          IN  /\ new_entries' = new
              /\ cached_entries_count' = Len(entries) - Len(new)
              /\ pushed' = IF is_enabled THEN handled ELSE <<>>
              /\ \E successes \in 0..Len(handled) :
                    notion_success_count' = IF is_enabled THEN successes ELSE 0
              /\ cache_data' = recorded
              /\ i' = Len(handled) + 1
              /\ IF new = <<>>
                    THEN UNCHANGED file
                    ELSE \E written \in SaveOutcomes :
                            file' = save_cache(file, recorded, written)
              /\ ret' = [op |-> "display_content", entries |-> entries,
                         is_enabled |-> is_enabled, cache |-> cache_data]
    /\ UNCHANGED <<pushVars, procVars, now, notionVars, monVars, fetchVars,
                   run0, calls, ranFeeds, inserted>>

NextFilter == unit_display_content

SpecFilter == InitFilter /\ [][NextFilter]_vars

(***************************************************************************)
(* A process from start to exit as one step, for one user whose feed was   *)
(* obtained: construction (cache load, store set-up, eviction pass,        *)
(* connection test), then the user's run.  Processes follow each other on  *)
(* the cache file.                                                         *)
(***************************************************************************)
\* faulty variant of publishing_loop: with the store disabled the entries
\* are not recorded
publishing_loop_skipping(is_enabled, cache, handled, t) ==
    [pushed |-> IF is_enabled THEN handled ELSE <<>>,
     cache |-> IF is_enabled THEN record_all(cache, handled, t) ELSE cache]

\* the publishing loop over the handled entries: the entries pushed and the
\* cache afterwards
publishing_loop(is_enabled, cache, handled, t) ==
    [pushed |-> IF is_enabled THEN handled ELSE <<>>,
     cache |-> record_all(cache, handled, t)]

SeenFeeds == {FeedSmall, FeedDup}

InitSeen ==
    /\ impl \in {"rsshubai", "modular"}
    /\ Boot("process")

\* main() for one user; ret.earlier tells how the store was in the process
\* before this one
unit_process ==
    /\ pc = "process"
    /\ procs <= MaxProcs
    /\ procs' = procs + 1
    /\ \E entries \in SeenFeeds, set_up \in BOOLEAN, retrieved \in BOOLEAN,
          stats_written \in SaveOutcomes, written \in SaveOutcomes,
          t \in ClockTimes :
          LET loaded == load_cache(file)
              cache0 == evicted(loaded, t)
              file0 == IF old_entries(loaded, t) # {}
                          THEN save_cache(file, cache0, stats_written)
                          ELSE file
              is_enabled == after_test_connection(impl, set_up, retrieved)
              new == filter_new(cache0, entries)
              handled == todo(impl, new)
              loop == publishing_loop(is_enabled, cache0, handled, t)
          IN  /\ t >= now
              /\ now' = t
              /\ enabled' = is_enabled
              /\ database_id' = IF set_up THEN PAGE_OR_DB_ID ELSE NoneStr
              /\ run0' = [cache |-> cache0, file |-> file0]
              /\ new_entries' = new
              /\ cached_entries_count' = Len(entries) - Len(new)
              /\ pushed' = loop.pushed
              /\ \E successes \in 0..Len(loop.pushed) :
                    notion_success_count' = successes
              /\ i' = Len(handled) + 1
              /\ cache_data' = loop.cache
              /\ file' = IF new = <<>> THEN file0
                         ELSE save_cache(file0, loop.cache, written)
              /\ calls' = IF new = <<>> THEN <<>> ELSE <<SaveCall>>
              /\ ret' = [op |-> "main", entries |-> entries,
                         set_up |-> set_up,
                         test_failed |-> set_up /\ ~retrieved,
                         earlier |-> IF ret = NoCall THEN "none"
                                     ELSE IF enabled THEN "enabled"
                                     ELSE "disabled"]
    /\ UNCHANGED <<pushVars, impl, pc, config, monVars, fetchVars, ranFeeds,
                   inserted>>

NextSeen == unit_process

SpecSeen == InitSeen /\ [][NextSeen]_vars

(***************************************************************************)
(* One process from start to end, on any cache file, with the interrupt    *)
(* the user can send while it runs.                                        *)
(***************************************************************************)
InitRun ==
    /\ impl \in {"rsshubai", "modular"}
    /\ \E f \in StartFiles : BootOn("start", f)

\* Ctrl-C during a fetch or in the publishing loop: no handler below main
\* catches KeyboardInterrupt; main prints a message and the process ends
KeyboardInterrupt ==
    /\ pc \in {"fetching", "publishing"}
    /\ pc' = "interrupted"
    /\ UNCHANGED <<pushVars, impl, procs, config, now, cacheVars, notionVars, monVars,
                   fetchVars, runVars, ranFeeds, ret, inserted>>

NextRun ==
    \/ SocialMediaConfig_init
    \/ CacheManager_init
    \/ NotionManager_init
    \/ get_cache_stats
    \/ test_connection
    \/ fetch_user_content
    \/ try_source
    \/ no_feed
    \/ display_content
    \/ display_content_entry
    \/ display_content_save
    \/ process_user_content
    \/ process_user_content_entry
    \/ process_user_content_save
    \/ monitor_done
    \/ KeyboardInterrupt

SpecRun == InitRun /\ [][NextRun]_vars

(***************************************************************************)
(* One process that nobody interrupts: the program is one thread that      *)
(* takes its next step as long as it has one.                              *)
(***************************************************************************)
NextOnce ==
    \/ SocialMediaConfig_init
    \/ CacheManager_init
    \/ NotionManager_init
    \/ get_cache_stats
    \/ test_connection
    \/ fetch_user_content
    \/ try_source
    \/ no_feed
    \/ display_content
    \/ display_content_entry
    \/ display_content_save
    \/ process_user_content
    \/ process_user_content_entry
    \/ process_user_content_save
    \/ monitor_done

SpecLive == InitRun /\ [][NextOnce]_vars /\ WF_vars(NextOnce)

(***************************************************************************)
(* CacheManager alone: its methods called in any order, on any entry of    *)
(* EntryDomain, while the clock moves over TimePoints.                     *)
(***************************************************************************)
A1 == [id |-> "u1", link |-> "u2", title |-> "a", published |-> "c",
       author |-> "ann", summary |-> "s1"]
\* A1 without author and summary
A2 == [id |-> "u1", link |-> "u2", title |-> "a", published |-> "c"]
\* an empty id: the link is hashed, and it is the id of A1
A3 == [id |-> "", link |-> "u1"]
A4 == [link |-> "u2", title |-> "a"]
A5 == [title |-> "a_b", published |-> "c"]
\* "a" + "_" + "b_c": the string hashed for A5
A6 == [title |-> "a", published |-> "b_c"]

EntryDomain == {A1, A2, A3, A4, A5, A6}

\* bookkeeping of what was recorded (not program state)
Noted(log, entry_id, entry, t) ==
    [k \in DOMAIN log \cup {entry_id} |->
        IF k = entry_id
           THEN [at |-> t,
                 by |-> (IF k \in DOMAIN log THEN log[k].by ELSE {}) \cup {entry}]
           ELSE log[k]]

InitCache ==
    /\ impl = "rsshubai"
    /\ Boot("unit")

\* faulty variant of unit_is_entry_cached: the entry asked about is recorded
unit_is_entry_cached_recording ==
    /\ pc = "unit"
    /\ \E entry \in EntryDomain :
          /\ ret' = [op |-> "is_entry_cached", entry |-> entry,
                     entry_id |-> generate_entry_id(entry),
                     value |-> is_entry_cached(cache_data, entry)]
          /\ cache_data' = add_entry_to_cache(cache_data, entry, now)
    /\ UNCHANGED <<pushVars, procVars, now, file, notionVars, monVars, fetchVars,
                   runVars, ranFeeds, inserted>>

unit_is_entry_cached ==
    /\ pc = "unit"
    /\ \E entry \in EntryDomain :
          ret' = [op |-> "is_entry_cached", entry |-> entry,
                  entry_id |-> generate_entry_id(entry),
                  value |-> is_entry_cached(cache_data, entry)]
    /\ UNCHANGED <<pushVars, procVars, now, cacheVars, notionVars, monVars, fetchVars,
                   runVars, ranFeeds, inserted>>

unit_add_entry_to_cache ==
    /\ pc = "unit"
    /\ \E entry \in EntryDomain :
          /\ Cardinality(DOMAIN cache_data \cup {generate_entry_id(entry)}) <= MaxCache
          /\ cache_data' = add_entry_to_cache(cache_data, entry, now)
          /\ ret' = [op |-> "add_entry_to_cache", entry |-> entry,
                     entry_id |-> generate_entry_id(entry), at |-> now]
          /\ inserted' = Noted(inserted, generate_entry_id(entry), entry, now)
    /\ UNCHANGED <<pushVars, procVars, now, file, notionVars, monVars, fetchVars,
                   runVars, ranFeeds>>

\* faulty variant of unit_get_cache_stats: the file is rewritten by every pass
unit_get_cache_stats_always_saving ==
    /\ pc = "unit"
    /\ cache_data' = evicted(cache_data, now)
    /\ \E written \in SaveOutcomes :
          /\ file' = save_cache(file, evicted(cache_data, now), written)
          /\ ret' = [op |-> "get_cache_stats", at |-> now,
                     value |-> cache_stats(cache_data, now), io |-> written]
    /\ UNCHANGED <<pushVars, procVars, now, notionVars, monVars, fetchVars, runVars,
                   ranFeeds, inserted>>

\* ret.io: how the _save_cache call of the pass went, "none" without a call
unit_get_cache_stats ==
    /\ pc = "unit"
    /\ cache_data' = evicted(cache_data, now)
    /\ IF old_entries(cache_data, now) # {}
          THEN \E written \in SaveOutcomes :
                  /\ file' = save_cache(file, evicted(cache_data, now), written)
                  /\ ret' = [op |-> "get_cache_stats", at |-> now,
                             value |-> cache_stats(cache_data, now),
                             io |-> written]
          ELSE /\ UNCHANGED file
               /\ ret' = [op |-> "get_cache_stats", at |-> now,
                          value |-> cache_stats(cache_data, now),
                          io |-> "none"]
    /\ UNCHANGED <<pushVars, procVars, now, notionVars, monVars, fetchVars, runVars,
                   ranFeeds, inserted>>

\* faulty variant of unit_save: a failed write empties the cache in memory
unit_save_resetting ==
    /\ pc = "unit"
    /\ \E written \in SaveOutcomes :
          /\ file' = save_cache(file, cache_data, written)
          /\ cache_data' = IF written = "written" THEN cache_data ELSE EmptyDict
          /\ ret' = [op |-> "save", io |-> written]
    /\ UNCHANGED <<pushVars, procVars, now, notionVars, monVars, fetchVars, runVars,
                   ranFeeds, inserted>>

\* CacheManager.save
unit_save ==
    /\ pc = "unit"
    /\ \E written \in SaveOutcomes :
          /\ file' = save_cache(file, cache_data, written)
          /\ ret' = [op |-> "save", io |-> written]
    /\ UNCHANGED <<pushVars, procVars, now, cache_data, notionVars, monVars, fetchVars,
                   runVars, ranFeeds, inserted>>

unit_Tick ==
    /\ pc = "unit"
    /\ \E t \in TimePoints : t > now /\ now' = t
    /\ UNCHANGED <<pushVars, procVars, cacheVars, notionVars, monVars, fetchVars,
                   runVars, ranFeeds, ret, inserted>>

NextCache ==
    \/ unit_is_entry_cached
    \/ unit_add_entry_to_cache
    \/ unit_get_cache_stats
    \/ unit_Tick

SpecCache == InitCache /\ [][NextCache]_vars

\* CacheManager between two eviction passes: membership tests, recordings and
\* saves in any order
NextPersist ==
    \/ unit_is_entry_cached
    \/ unit_add_entry_to_cache
    \/ unit_save

SpecPersist == InitCache /\ [][NextPersist]_vars

(***************************************************************************)
(* Text chunking alone: _split_text_to_blocks on any short text with any   *)
(* max_length, and with the default max_length on any text.                *)
(***************************************************************************)
InitText ==
    /\ impl = "rsshubai"
    /\ Boot("text")

unit_split_text_to_blocks ==
    /\ pc = "text"
    /\ \E text \in ShortTexts, max_length \in 1..(MaxText + 1) :
          ret' = [op |-> "split_text_to_blocks", text |-> text,
                  max_length |-> max_length,
                  value |-> split_text_to_blocks(text, max_length)]
    /\ UNCHANGED <<pushVars, procVars, now, cacheVars, notionVars, monVars, fetchVars,
                   runVars, ranFeeds, inserted>>

unit_build_paragraph_blocks ==
    /\ pc = "text"
    /\ \E text \in ShortTexts \cup LongTexts :
          ret' = [op |-> "build_paragraph_blocks", text |-> text,
                  max_length |-> MAX_LENGTH,
                  value |-> split_text_to_blocks(text, MAX_LENGTH),
                  blocks |-> build_paragraph_blocks(text)]
    /\ UNCHANGED <<pushVars, procVars, now, cacheVars, notionVars, monVars, fetchVars,
                   runVars, ranFeeds, inserted>>

NextText ==
    \/ unit_split_text_to_blocks
    \/ unit_build_paragraph_blocks

SpecText == InitText /\ [][NextText]_vars

(***************************************************************************)
(* Properties.  Those of the pipeline are stated of Spec, those of the     *)
(* CacheManager alone of SpecCache.                                        *)
(***************************************************************************)
\* the entries the publishing loop of the current run iterates over
Handled == todo(impl, new_entries)

\* the user's run went through its publishing loop and saved
RunEnded == pc = "monitor" /\ last = "done"

Fingerprints(entries) == {generate_entry_id(entries[k]) : k \in 1..Len(entries)}

\* C1 (Fallback order): the candidates are tried in the resolver's order,
\* each once; a successful try is the last one of the fetch, its feed is the
\* feed returned, and no try is made after it.
FallbackOrder ==
    /\ Len(attempted) <= Len(urls)
    /\ \A j, k \in 1..Len(urls) : j # k => urls[j] # urls[k]
    /\ \A k \in 1..Len(attempted) :
          /\ attempted[k].url = urls[k]
          /\ attempted[k].success =>
                /\ k = Len(attempted)
                /\ pc # "fetching"
                /\ IsTrue(feed)
                /\ feed = lastParse
    /\ IsTrue(feed) =>
          /\ Len(attempted) >= 1
          /\ attempted[Len(attempted)].success

\* C1 witness: of three candidates the first failed, the second succeeded and
\* its feed was returned with the third never tried.
FallbackSecondOfThree ==
    /\ pc = "fetched"
    /\ Len(urls) = 3
    /\ Len(attempted) = 2
    /\ ~attempted[1].success
    /\ attempted[2].success
    /\ IsTrue(feed)
    /\ feed = lastParse

CommitEveryNewEntry ==
    RunEnded =>
        \A k \in 1..Len(new_entries) : is_entry_cached(cache_data, new_entries[k])

\* C3 amended: when the run ends every entry the publishing loop handled (all
\* new entries in process_user_content, the first 10 in display_content) is
\* in the cache, whether its push succeeded or not; the cache gained exactly
\* their fingerprints; with the store enabled there was one push per handled
\* entry and the reported successes are among them.
CommitRegardlessOfOutcome ==
    RunEnded =>
        /\ \A k \in 1..Len(Handled) :
              /\ generate_entry_id(Handled[k]) \in DOMAIN cache_data
              /\ cache_data[generate_entry_id(Handled[k])].cached_time = now
        /\ DOMAIN cache_data = DOMAIN run0.cache \cup Fingerprints(Handled)
        /\ enabled => pushed = Handled /\ notion_success_count <= Len(pushed)
        /\ ~enabled => pushed = <<>> /\ notion_success_count = 0

\* C3 witness: the first candidate failed, the second gave three entries,
\* none cached; three pushes, two successes, all three fingerprints cached.
TwoOfThreePublished ==
    /\ RunEnded
    /\ Len(attempted) = 2
    /\ feed.entries = FeedSmall
    /\ run0.cache = EmptyDict
    /\ Len(pushed) = 3
    /\ notion_success_count = 2
    /\ Cardinality(DOMAIN cache_data) = 3

\* a push of the current run returned False
SomePushFailed == enabled /\ notion_success_count < Len(pushed)

\* C7 as claimed (Per-entry failure isolation, every later new entry): after
\* a failed push the process goes on, the entries pushed so far stay
\* recorded, and the run ends with every new entry pushed.
FailureIsolationEveryNewEntry ==
    SomePushFailed =>
        /\ pc \in {"publishing", "monitor", "exited"}
        /\ \A k \in 1..Len(pushed) : is_entry_cached(cache_data, pushed[k])
        /\ pc # "publishing" => /\ last = "done"
                                /\ Len(pushed) = Len(new_entries)

\* C7 amended: as claimed, with the later entries being those of the
\* publishing loop (all new entries in process_user_content, the first 10 in
\* display_content).
FailureIsolation ==
    SomePushFailed =>
        /\ pc \in {"publishing", "monitor", "exited"}
        /\ \A k \in 1..Len(pushed) : is_entry_cached(cache_data, pushed[k])
        /\ pushed = SubSeq(Handled, 1, Len(pushed))
        /\ pc = "publishing" => Len(pushed) = i - 1
        /\ pc # "publishing" => /\ last = "done"
                                /\ pushed = Handled

\* C7 witness: the first of three pushes failed (no push succeeded), the two
\* later entries were pushed all the same and all three are recorded.
LaterEntriesAfterFailure ==
    /\ RunEnded
    /\ enabled
    /\ Len(pushed) = 3
    /\ notion_success_count = 0
    /\ \A k \in 1..3 : is_entry_cached(cache_data, pushed[k])

\* the parse result the last try_rss_source call worked on is in lastParse
Tried == Len(attempted) >= 1 /\ pc \in {"fetching", "fetched"}

\* C8 as claimed (Candidate success criterion): success exactly when the feed
\* carries status 200 or has entries.
SuccessIffStatusOrEntries ==
    (Tried /\ "raised" \notin DOMAIN lastParse) =>
        (lastReturn.success <=>
            \/ "status" \in DOMAIN lastParse /\ lastParse.status = HTTP_OK
            \/ Len(lastParse.entries) > 0)

\* C8 amended: success exactly when the parser raised nothing and the feed has
\* a non-empty entry list, whatever its status; the feed is returned on
\* success and None otherwise.
SuccessIffEntries ==
    Tried =>
        /\ lastReturn.success <=>
              /\ "raised" \notin DOMAIN lastParse
              /\ Len(lastParse.entries) > 0
        /\ lastReturn.feed = IF lastReturn.success THEN lastParse ELSE None
        /\ attempted[Len(attempted)].success = lastReturn.success

\* C8 witness: a feed with status 200 and no entry was reported as a failure.
Status200NoEntriesFails ==
    /\ Tried
    /\ lastParse = ParsedWith(<<>>, HTTP_OK)
    /\ ~lastReturn.success

\* C9 (Exhaustion): when no candidate succeeded every candidate was tried
\* once, in order, the result is (None, None), and neither the cache, nor the
\* cache file, nor the store was touched.
Exhaustion ==
    (pc = "fetched" /\ ~IsTrue(feed)) =>
        /\ Len(attempted) = Len(urls)
        /\ \A k \in 1..Len(attempted) :
              attempted[k].url = urls[k] /\ ~attempted[k].success
        /\ feed = None
        /\ source = NoneStr
        /\ cache_data = run0.cache
        /\ file = run0.file
        /\ pushed = <<>>

\* C9 witness: three candidates failed, one by an exception, one by a feed
\* without entries, while the cache held records.
AllThreeFailed ==
    /\ pc = "fetched"
    /\ ~IsTrue(feed)
    /\ Len(attempted) = 3
    /\ \E j, k \in 1..3 : attempted[j].raised /\ ~attempted[k].raised
    /\ cache_data # EmptyDict

\* C10 (Cross-user isolation): the process stops early only when the
\* configuration could not be loaded, before any user; whatever happens for a
\* user, the users after it are handled and the process ends after the last.
CrossUserIsolation ==
    /\ pc = "aborted" => config = NotLoaded /\ uidx = 1
    /\ pc = "exited" => uidx = Len(Users) + 1
    /\ success_count <= uidx - 1

\* C4 (Cache TTL): after an eviction pass at time t a fingerprint last
\* recorded at t0 is in the cache when t - t0 is at most 30 days and is not
\* when t - t0 exceeds 30 days.
CacheTTL ==
    ret.op = "get_cache_stats" =>
        \A entry_id \in DOMAIN inserted :
            entry_id \in DOMAIN cache_data
                <=> ret.at - inserted[entry_id].at <= 30 * Day

\* C4 witness: the pass at day 31 dropped a record made at day 0 and kept one
\* made at day 29.
PassAtDay31 ==
    /\ ret.op = "get_cache_stats"
    /\ ret.at = 31 * Day
    /\ \E a, b \in DOMAIN inserted :
          /\ inserted[a].at = 0 /\ a \notin DOMAIN cache_data
          /\ inserted[b].at = 29 * Day /\ b \in DOMAIN cache_data

\* the fields the fingerprint may depend on
IdentityFields == {"id", "link", "title", "published"}
SameIdentityFields(e1, e2) ==
    \A k \in IdentityFields :
        /\ k \in DOMAIN e1 <=> k \in DOMAIN e2
        /\ k \in DOMAIN e1 => e1[k] = e2[k]

\* C5 (Fingerprint selection and determinism): every call hashes the id when
\* the entry has a non-empty one, else the link when it has a non-empty one,
\* else title and published joined by "_"; an entry agreeing on these four
\* fields with one recorded earlier gets the fingerprint that one got.
FingerprintSelection ==
    ret.op \in {"is_entry_cached", "add_entry_to_cache"} =>
        LET e == ret.entry
            has(k) == k \in DOMAIN e /\ e[k] # ""
            text(k) == IF k \in DOMAIN e THEN e[k] ELSE ""
        IN  /\ ret.entry_id =
                  md5(IF has("id") THEN e["id"]
                      ELSE IF has("link") THEN e["link"]
                      ELSE text("title") \o "_" \o text("published"))
            /\ \A entry_id \in DOMAIN inserted :
                  \A earlier \in inserted[entry_id].by :
                      SameIdentityFields(earlier, e) => ret.entry_id = entry_id

\* C5 witness: A1 was recorded at day 0; at a later time A2, which differs
\* from it in author and summary only, is found cached under A1's fingerprint.
SameFingerprintLater ==
    /\ ret.op = "is_entry_cached"
    /\ ret.entry = A2
    /\ ret.value
    /\ now > 0
    /\ inserted[ret.entry_id].by = {A1}

\* the cases in which the claim takes two entries for the same one
SameIdentity(e1, e2) ==
    \/ Truthy(e1, "id") /\ Truthy(e2, "id") /\ e1["id"] = e2["id"]
    \/ /\ ~Truthy(e1, "id") /\ ~Truthy(e2, "id")
       /\ Truthy(e1, "link") /\ Truthy(e2, "link") /\ e1["link"] = e2["link"]
    \/ /\ ~Truthy(e1, "id") /\ ~Truthy(e2, "id")
       /\ ~Truthy(e1, "link") /\ ~Truthy(e2, "link")
       /\ Get(e1, "title", "") = Get(e2, "title", "")
       /\ Get(e1, "published", "") = Get(e2, "published", "")

\* C6 (Fingerprint injectivity up to the hash): an entry is reported cached
\* only if an entry with the same identity was recorded before.
NoFalseCacheHit ==
    (ret.op = "is_entry_cached" /\ ret.value) =>
        \E entry_id \in DOMAIN inserted :
            \E earlier \in inserted[entry_id].by : SameIdentity(earlier, ret.entry)

\* the chunks of a split, joined in order
RECURSIVE Concat(_)
Concat(chunks) ==
    IF chunks = <<>> THEN <<>> ELSE Head(chunks) \o Concat(Tail(chunks))

Split == ret.op \in {"split_text_to_blocks", "build_paragraph_blocks"}

\* C11 (Chunk round-trip): the chunks of a text joined in order are the text,
\* and no chunk is longer than max_length.
ChunkRoundTrip ==
    Split =>
        /\ Concat(ret.value) = ret.text
        /\ \A k \in 1..Len(ret.value) :
              Len(ret.value[k]) >= 1 /\ Len(ret.value[k]) <= ret.max_length

\* C11 witness: a text of twice the default limit plus one character gave two
\* full chunks and a trailing chunk of one character.
TrailingChunk ==
    /\ ret.op = "build_paragraph_blocks"
    /\ Len(ret.text) = 2 * MAX_LENGTH + 1
    /\ Len(ret.value) = 3
    /\ Len(ret.value[3]) = 1

\* C12 as claimed (Single chunk at or under the limit, the empty text
\* included): a text of at most 1900 characters gives exactly one chunk.
SingleChunkEmptyIncluded ==
    (ret.op = "build_paragraph_blocks" /\ Len(ret.text) <= 1900) =>
        Len(ret.value) = 1

\* C12 amended: a non-empty text of at most 1900 characters gives exactly one
\* chunk, the text itself; the empty text gives no chunk.
SingleChunk ==
    (ret.op = "build_paragraph_blocks" /\ Len(ret.text) <= 1900) =>
        ret.value = IF Len(ret.text) = 0 THEN <<>> ELSE <<ret.text>>

\* C12 witness: a text of exactly 1900 characters gave one chunk.
ExactlyAtLimit ==
    /\ ret.op = "build_paragraph_blocks"
    /\ Len(ret.text) = 1900
    /\ Len(ret.value) = 1

\* the records of a cache older than 30 days at time t
OlderThan30Days(cache, t) ==
    {k \in DOMAIN cache : t - cache[k].cached_time > 30 * Day}

\* C13 (Eviction pass result and persistence): a pass removes the records
\* older than 30 days and no other, returns (records remaining, records
\* removed), and calls for the file to be written exactly when it removed
\* something: the file is then the remaining records, or what the failed
\* write left; without a removal the file is untouched.
EvictionPass ==
    [][(ret' # ret /\ ret'.op = "get_cache_stats") =>
          LET old == OlderThan30Days(cache_data, now)
          IN  /\ DOMAIN cache_data' = DOMAIN cache_data \ old
              /\ \A k \in DOMAIN cache_data' : cache_data'[k] = cache_data[k]
              /\ ret'.value = <<Cardinality(DOMAIN cache_data'), Cardinality(old)>>
              /\ (old = {}) <=> (ret'.io = "none")
              /\ ret'.io = "none" => file' = file
              /\ ret'.io = "written" =>
                    file' = [kind |-> "mapping", data |-> cache_data']
              /\ ret'.io = "open_failed" => file' = file
              /\ ret'.io = "dump_failed" => file'.kind = "unparseable"
       ]_vars

\* C13 witness: a pass removed one record of two, returned (1, 1) and wrote
\* the remaining record to the file.
PassRemovedOneOfTwo ==
    /\ ret.op = "get_cache_stats"
    /\ ret.value = <<1, 1>>
    /\ ret.io = "written"
    /\ file.kind = "mapping"
    /\ file.data = cache_data
    /\ Cardinality(DOMAIN cache_data) = 1

\* C14 (Membership test is read-only): is_entry_cached answers whether the
\* entry's fingerprint is a key of the cache in memory and leaves the cache
\* in memory and the cache file as they were.
MembershipReadOnly ==
    [][(ret' # ret /\ ret'.op = "is_entry_cached") =>
          /\ ret'.value = (md5(unique_str(ret'.entry)) \in DOMAIN cache_data)
          /\ cache_data' = cache_data
          /\ file' = file
          /\ ret'.entry \in EntryDomain
       ]_vars

\* C14 witness: with records in memory and no cache file, an entry never
\* recorded was reported as not cached.
NotCachedAnswer ==
    /\ ret.op = "is_entry_cached"
    /\ ~ret.value
    /\ ret.entry_id \notin DOMAIN cache_data
    /\ Cardinality(DOMAIN cache_data) = 2
    /\ file = NoFile

\* C15 (Record overwrites): add_entry_to_cache leaves under the entry's
\* fingerprint the record of this entry with the current time, whatever was
\* there before, and leaves every other record as it was.
RecordOverwrites ==
    [][(ret' # ret /\ ret'.op = "add_entry_to_cache") =>
          LET entry == ret'.entry
              entry_id == ret'.entry_id
              field(k) == IF k \in DOMAIN entry THEN entry[k] ELSE ""
          IN  /\ entry_id = md5(unique_str(entry))
              /\ DOMAIN cache_data' = DOMAIN cache_data \cup {entry_id}
              /\ cache_data'[entry_id] =
                    [title |-> field("title"), link |-> field("link"),
                     author |-> field("author"),
                     published |-> field("published"), cached_time |-> now]
              /\ \A k \in DOMAIN cache_data \ {entry_id} :
                    cache_data'[k] = cache_data[k]
              /\ file' = file
       ]_vars

\* C15 witness: a record made at time 0 for one entry was replaced at day 29
\* by the record of another entry with the same fingerprint, next to a
\* second record that kept its time.
RecordReplaced ==
    /\ ret.op = "add_entry_to_cache"
    /\ ret.at = 29 * Day
    /\ now = 29 * Day
    /\ Cardinality(inserted[ret.entry_id].by) = 2
    /\ cache_data[ret.entry_id].cached_time = 29 * Day
    /\ cache_data[ret.entry_id].author = Get(ret.entry, "author", "")
    /\ \E k \in DOMAIN cache_data : k # ret.entry_id /\ cache_data[k].cached_time = 0

\* C17 (Persist failure is non-fatal): save leaves the cache in memory as it
\* was whether the write went through or not, the calls after a failed write
\* are served (the membership test from the cache in memory), and no record
\* leaves the cache in memory.
PersistFailureNonFatal ==
    [][/\ (ret' # ret /\ ret'.op = "save") =>
             /\ cache_data' = cache_data
             /\ pc' = pc
             /\ ret'.io # "written" => file' \in {file, Unparseable}
       /\ (ret' # ret /\ ret'.op = "is_entry_cached") =>
             ret'.value = (ret'.entry_id \in DOMAIN cache_data)
       /\ DOMAIN cache_data \subseteq DOMAIN cache_data'
      ]_vars

\* C17 witness: after a save whose write failed half-way (the file is left
\* unparseable), an entry recorded before it was still reported as cached.
CachedAfterFailedSave ==
    /\ ret.op = "is_entry_cached"
    /\ ret.value
    /\ file = Unparseable
    /\ ret.entry_id \in DOMAIN inserted
    /\ ret.entry_id \in DOMAIN cache_data

\* a cache file the program can have written: a fingerprint -> record mapping
ProperCacheFile(f) ==
    /\ f.kind = "mapping"
    /\ \A k \in DOMAIN f.data : "cached_time" \in DOMAIN f.data[k]

\* the process ended for a reason that lies in the configuration
ConfigurationStopped ==
    \/ config = NotLoaded
    \/ uidx <= Len(Users) /\ generate_urls_raises(config, Users[uidx])

\* C16 (Cache load never aborts): on a cache file that is missing, does not
\* parse, or parses to something else than records, the process is not
\* aborted and reaches the monitor loop with an empty cache.
CacheLoadNeverAborts ==
    /\ pc = "aborted" => ConfigurationStopped
    /\ (pc = "monitor" /\ last = "none" /\ ~ProperCacheFile(file)) =>
          cache_data = EmptyDict

\* C20 (Flush on interrupt): when the process ends by an interrupt, the
\* records in memory are in the cache file.
FlushOnInterrupt ==
    pc = "interrupted" =>
        /\ file.kind = "mapping" \/ cache_data = EmptyDict
        /\ \A k \in DOMAIN cache_data :
              k \in DOMAIN load_cache(file) /\ load_cache(file)[k] = cache_data[k]

\* the blocks the image loop starts from, and the images it handles
SummaryBlocks ==
    Len(build_paragraph_blocks(summary))
        + Len(embed_blocks(impl, entry_platform, original_url))
Handling == Min(Len(image_urls), IMAGE_CAP)

\* a pass of the image loop whose upload failed
FailedPass ==
    /\ pc = "push_images"
    /\ img' = img + 1
    /\ ret'.outcome \in UploadFailures
\* what the pass leaves
FailedPassContained ==
    /\ ret'.value = NoneStr
    /\ ~ret'.raised
    /\ children' = Append(children, LinkParagraph(image_urls[img]))
    /\ pc' = "push_images"
\* the loop is left by the pages.create call, after the last image
LoopLeftByRequest ==
    (pc = "push_images" /\ pc' # "push_images") =>
        (img = Handling + 1 /\ page_requests' = <<children>>)
\* in the loop, the page holds one block for each image handled so far
BlockPerImage ==
    pc = "push_images" =>
        /\ img \in 1..(Handling + 1)
        /\ Len(children) = SummaryBlocks + img - 1

\* C18 (Image publishing failure is contained): when the download, the
\* creation of the upload object or the sending of the content fails for an
\* image, _upload_image_to_notion returns None and raises nothing, the block
\* appended in the image's position is a paragraph linking to the image URL,
\* the loop goes on with the next image, and the loop is left only by the
\* pages.create call, made with a block for each of the first five images.
ImageFailureContained ==
    /\ []BlockPerImage
    /\ [][(FailedPass => FailedPassContained) /\ LoopLeftByRequest]_vars

\* a page was requested whose second image failed and whose third did not
LinkThenImage ==
    /\ pc = "push"
    /\ ret.op = "push_entry_to_notion"
    /\ Len(page_requests) = 1
    /\ \E k \in 2..(Len(page_requests[1]) - 1), u \in ImageUrls :
          /\ page_requests[1][k] = LinkParagraph(u)
          /\ page_requests[1][k + 1].type = "image"
          /\ page_requests[1][k - 1].type = "image"

\* C19 (Scratch file cleanup): after _upload_image_to_notion returns from a
\* call whose download succeeded and whose deletion did not fail, the
\* downloaded file is not in ./downloads.
ScratchFileCleanup ==
    (pc = "push_images" /\ ret.op = "upload_image_to_notion" /\
     ret.outcome \in {"create_failed", "send_failed", "uploaded"}) =>
        ret.local_path \notin downloads

\* the save() calls of the user's run so far
Saves == Len(SelectSeq(calls, LAMBDA c : c.op = "save"))
\* the user's run returned after filtering, with no entry new
RunEndedNothingNew == pc = "monitor" /\ last = "nonew"

\* C21 as claimed (Single persist per run, a run with no new entry included):
\* a run that reaches its end has called save() exactly once.
SinglePersistEveryRun ==
    (RunEnded \/ RunEndedNothingNew) => Saves = 1

\* the cache file changes in a save() of a run or in the eviction pass only
FileWrittenBySave ==
    file' # file => (calls' = Append(calls, SaveCall) \/ pc = "cache_stats")

\* C21 (Single persist per run): a run with at least one new entry calls
\* save() exactly once, as its last call, after every entry of the publishing
\* loop was attempted and recorded, and never between two entries; a run in
\* which no entry is new calls save() not at all; the file changes in no
\* other step of a run.
SinglePersist ==
    /\ [](pc = "publishing" => Saves = 0)
    /\ [](RunEnded =>
            /\ Saves = 1
            /\ calls[Len(calls)] = SaveCall
            /\ \A k \in 1..Len(Handled) :
                  \E n \in 1..(Len(calls) - 1) : calls[n] = RecordCall(k))
    /\ [](RunEndedNothingNew => calls = <<>> /\ file = run0.file)
    /\ [][FileWrittenBySave]_vars

\* a run over eleven new entries ended: ten recorded, one save
SavedOnceAfterTen ==
    /\ RunEnded
    /\ impl = "rsshubai"
    /\ Len(new_entries) = MAX_NEW + 1
    /\ Len(calls) >= MAX_NEW + 1
    /\ Saves = 1

\* the entries of the feed the run filtered
FeedEntries == Get(feed, "entries", <<>>)
\* the calls of the run that concern an entry
EntryCalls == SelectSeq(calls, LAMBDA c : c.op # "save")

\* C22 (Feed order): the new entries are the uncached entries of the feed in
\* feed order; the publish attempts are made for them in that order, one
\* entry at a time; the attempt and the record of an entry precede the
\* attempt of every later one, and each entry is recorded directly after its
\* own attempt.
FeedOrder ==
    pc \in {"publishing", "monitor"} /\ last # "failed" /\ calls # <<>> =>
        LET ec == EntryCalls
        IN  /\ new_entries = filter_new(run0.cache, FeedEntries)
            /\ \A k \in 1..Len(pushed) : pushed[k] = new_entries[k]
            /\ \A m, n \in 1..Len(ec) : m < n => ec[m].k <= ec[n].k
            /\ \A n \in 1..Len(ec) :
                  ec[n].op = "push_entry_to_notion" =>
                      /\ n < Len(ec)
                      /\ ec[n + 1] = RecordCall(ec[n].k)
                      /\ pushed[ec[n].k] = new_entries[ec[n].k]
            /\ \A k \in 1..(i - 1) :
                  /\ \E n \in 1..Len(ec) : ec[n] = RecordCall(k)
                  /\ enabled => \E n \in 1..Len(ec) : ec[n] = PushCall(k)

\* a run pushed and recorded the three entries of a feed, in order
ThreeInOrder ==
    /\ RunEnded
    /\ enabled
    /\ FeedEntries = FeedSmall
    /\ pushed = FeedSmall
    /\ calls = <<PushCall(1), RecordCall(1), PushCall(2), RecordCall(2),
                 PushCall(3), RecordCall(3), SaveCall>>

\* the steps of a user's run, by the position before and after
RunEdges ==
    {<<"monitor", "fetching">>, <<"monitor", "fetched">>,
     <<"monitor", "aborted">>, <<"monitor", "exited">>,
     <<"fetching", "fetched">>, <<"fetched", "monitor">>,
     <<"fetched", "publishing">>, <<"publishing", "monitor">>}
\* the run has a feed in hand
FeedObtained == pc = "fetched" /\ IsTrue(feed) /\ source # NoneStr
\* the run ended without a feed
RunFailed == pc = "monitor" /\ last = "failed"
\* the run of user u ended after filtering or after publishing
Done(u) == pc = "monitor" /\ uidx = u + 1 /\ last \in {"done", "nonew"}

\* C23 (Per-user state machine): a run goes from resolving the sources to
\* fetching, filtering, publishing and the end, in this order; it ends failed
\* only when the platform has no template, with no fetch attempted, or when
\* every candidate was tried and none succeeded; a failed run has made no
\* publish call and no cache write; a run that obtained a feed ends done.
PerUserStateMachine ==
    /\ [][(pc \in {"monitor", "fetching", "fetched", "publishing"} /\ pc' # pc)
             => <<pc, pc'>> \in RunEdges]_vars
    /\ [](RunFailed =>
            /\ ~IsTrue(feed)
            /\ urls = <<>> => attempted = <<>>
            /\ urls # <<>> =>
                  /\ Len(attempted) = Len(urls)
                  /\ \A k \in 1..Len(attempted) : ~attempted[k].success
            /\ calls = <<>> /\ pushed = <<>>
            /\ cache_data = run0.cache /\ file = run0.file)
    /\ [][(FeedObtained /\ pc' = "monitor") => last' = "nonew"]_vars
    /\ \A u \in 1..Len(Users) : (FeedObtained /\ uidx = u) ~> Done(u)

\* a user whose platform has no template: the run failed with no fetch
FailedUnconfigured ==
    /\ RunFailed
    /\ urls = <<>>
    /\ attempted = <<>>
    /\ Users[uidx - 1].platform \notin DOMAIN config

\* C24 (Fetch attempts are independent): when try_rss_source has returned,
\* whether with a feed, without one, or after the parser raised, the default
\* socket timeout of the process is the value it had before the call.
SocketTimeoutRestored ==
    ret.op = "try_rss_source" => default_timeout = ret.original_timeout

\* C25: an entry lacking any of its fields (absent, empty or null) is still
\* classified, still gets a page-creation request, with the default in the
\* place of a missing title or author, and is still recorded in the cache
Missing(entry, k) == ~Truthy(entry, k)
MalformedNotSkipped ==
    (ret.op = "display_content" /\ ret.is_enabled) =>
        /\ Len(new_entries) + cached_entries_count = 1
        /\ Len(ret.requests) = 1
        /\ Missing(ret.entry, "title") => ret.requests[1].title = NO_TITLE
        /\ Missing(ret.entry, "author") => ret.requests[1].author = USER_NAME
        /\ is_entry_cached(cache_data, ret.entry)

\* a pass of the image loop, and the block it appended
ImagePass == pc = "push_images" /\ img' = img + 1
LastBlock == children'[Len(children')]
\* the pass is for one of the first five URLs, in extraction order, and
\* appends one block: an image block for an upload id, else a paragraph
PassInOrder ==
    /\ img <= Min(Len(image_urls), IMAGE_CAP)
    /\ ret'.op = "upload_image_to_notion"
    /\ ret'.image_url = image_urls[img]
    /\ Len(children') = Len(children) + 1
    /\ SubSeq(children', 1, Len(children)) = children
    /\ IF ret'.value # NoneStr THEN LastBlock = ImageBlock(ret'.value)
                               ELSE LastBlock.type = "paragraph"
\* the blocks before those of the images: the paragraphs of the summary and,
\* for a Twitter status link in _create_page_with_content, embed and divider
BlocksBeforeImages ==
    build_paragraph_blocks(summary) \o
       (IF impl = "modular" /\ entry_platform = "twitter"
           /\ original_url.domain \in TWITTER_DOMAINS /\ original_url.status
           THEN <<EmbedBlock(original_url), DividerBlock>>
           ELSE <<>>)
\* in the loop, the page is these blocks and then one per image handled
ImagesAfterSummary ==
    pc = "push_images" =>
        LET before == BlocksBeforeImages
        IN  /\ img - 1 <= Min(Len(image_urls), IMAGE_CAP)
            /\ Len(children) = Len(before) + img - 1
            /\ SubSeq(children, 1, Len(before)) = before
            /\ \A k \in (Len(before) + 1)..Len(children) :
                  children[k].type \in {"image", "paragraph"}
\* the page is requested with the blocks as the loop left them, after
\* min(n, 5) passes
RequestAfterCap ==
    (pc = "push_images" /\ ~ImagePass /\ vars' # vars) =>
        /\ img = Min(Len(image_urls), IMAGE_CAP) + 1
        /\ page_requests' = <<children>>

\* C26 (Image cap and block order): for an entry with n extracted image
\* URLs exactly min(n, 5) upload attempts are made, for the first min(n, 5)
\* URLs in extraction order; each attempt adds exactly one block, an image
\* block on success and a paragraph block on failure, in that order, after
\* all paragraph blocks of the summary and after the embed and divider
\* blocks when those are present; the page is requested with these blocks.
ImageCapAndBlockOrder ==
    /\ []ImagesAfterSummary
    /\ [][(ImagePass => PassInOrder) /\ RequestAfterCap]_vars

\* six image URLs were extracted for a Twitter status entry with a summary:
\* the loop is over after five passes, the page holds the summary paragraph,
\* the embed, the divider, and an image block and a link paragraph among
\* the five blocks of the images
FiveOfSixAfterEmbed ==
    /\ pc = "push_images"
    /\ Len(image_urls) = 6
    /\ img = 6
    /\ Len(children) = 8
    /\ children[1].type = "paragraph"
    /\ children[2] = EmbedBlock(original_url)
    /\ children[3] = DividerBlock
    /\ children[4].type = "image"
    /\ children[5] = LinkParagraph(image_urls[2])

\* C27 (Cache is append-only during a run): no step of the process other
\* than the eviction pass of get_cache_stats in RSSManager.__init__ removes a
\* fingerprint from the in-memory cache: after that pass the set of
\* fingerprints never shrinks, across the fetches, filters, publishing loops
\* and saves of all the users.
CacheAppendOnly ==
    [][pc # "cache_stats" => DOMAIN cache_data \subseteq DOMAIN cache_data']_vars

\* the process ended after the run of the last user, which found records in
\* the cache and added to them
GrownOverUsers ==
    /\ pc = "exited"
    /\ last = "done"
    /\ DOMAIN run0.cache # {}
    /\ DOMAIN run0.cache \subseteq DOMAIN cache_data
    /\ DOMAIN run0.cache # DOMAIN cache_data

\* the pairs of positions of the feed whose entries share a fingerprint that
\* the cache did not hold when the run began
EqualUncached ==
    {p \in (1..Len(ret.entries)) \X (1..Len(ret.entries)) :
        /\ p[1] < p[2]
        /\ generate_entry_id(ret.entries[p[1]]) =
              generate_entry_id(ret.entries[p[2]])
        /\ ~is_entry_cached(ret.cache, ret.entries[p[1]])}
In(x, seq) == \E k \in 1..Len(seq) : seq[k] = x
\* all fetched entries are classified new or cached
Partitioned == Len(new_entries) + cached_entries_count = Len(ret.entries)

\* C28 as claimed (Filtering uses the cache as it stood before publishing):
\* newCount + cachedCount is the number of fetched entries, and two entries
\* of the feed with equal fingerprints that are not yet cached are both
\* classified new and, with the store enabled, both get a publish attempt
\* in that run.
FilterBeforePublishBothPushed ==
    ret.op = "display_content" =>
        /\ Partitioned
        /\ \A p \in EqualUncached :
              /\ In(ret.entries[p[1]], new_entries)
              /\ In(ret.entries[p[2]], new_entries)
              /\ ret.is_enabled =>
                    (In(ret.entries[p[1]], pushed) /\
                     In(ret.entries[p[2]], pushed))

\* C28, amended: the entries are classified against the cache as the run
\* found it, so newCount + cachedCount is the number of fetched entries and
\* two entries of the feed with equal fingerprints that are not yet cached
\* are both classified new; with the store enabled, each entry the
\* publishing loop handles (all new entries in process_user_content, the
\* first ten in display_content) gets a publish attempt in that run, both
\* entries of such a pair when both are handled, and the handled entries
\* leave one cache record for each fingerprint.
FilterBeforePublish ==
    ret.op = "display_content" =>
        /\ Partitioned
        /\ new_entries = filter_new(ret.cache, ret.entries)
        /\ \A p \in EqualUncached :
              /\ In(ret.entries[p[1]], new_entries)
              /\ In(ret.entries[p[2]], new_entries)
        /\ ret.is_enabled => pushed = Handled
        /\ DOMAIN cache_data = DOMAIN ret.cache \cup Fingerprints(Handled)

\* E1 and D1 of one feed share a fingerprint the cache did not hold: both
\* were pushed, in feed order, and the four entries left three records
BothDuplicatesPushed ==
    /\ ret.op = "display_content"
    /\ ret.entries = FeedDup
    /\ ret.cache = EmptyDict
    /\ ret.is_enabled
    /\ Len(new_entries) = 4
    /\ pushed = <<E1, D1, D2, E0>>
    /\ Cardinality(DOMAIN cache_data) = 3

\* a push_entry_to_notion call that got past 'if not self.enabled'
PushAttempt == pushed' # pushed

\* C30 (Store-enabled invariant): once NotionManager is constructed, and
\* through every test_connection and push_entry_to_notion call, an enabled
\* store has its database_id set, so every page-creation call is made with
\* a database id; and enabled never goes from false to true.
StoreEnabledInvariant ==
    /\ [](enabled => database_id # NoneStr)
    /\ [][/\ PushAttempt => (enabled /\ database_id # NoneStr)
          /\ (pc # "notion_init" /\ enabled') => enabled]_vars

\* the store was set up with a database it created in the page, passed
\* the connection test and was pushed to
PushedToCreatedDatabase ==
    /\ pc = "publishing"
    /\ enabled
    /\ database_id = "created-db"
    /\ pushed # <<>>

\* the process ran with the store disabled as the claim has it: no
\* credential or a failed set-up, or a failed connection test
StoreOff == ret.op = "main" /\ (~ret.set_up \/ ret.test_failed)
\* the process ran with the store disabled
Disabled == ret.op = "main" /\ ~enabled
\* what a disabled run does: no page-creation call, zero publishes, every
\* handled entry recorded
MarksSeen ==
    /\ pushed = <<>>
    /\ notion_success_count = 0
    /\ Fingerprints(Handled) \subseteq DOMAIN cache_data
\* the cache is on disk as it is in memory
Persisted == file.kind = "mapping" /\ file.data = cache_data
\* the next process pushes none of the entries this one handled
NotPushedLater == \A k \in 1..Len(Handled) : ~In(Handled[k], pushed')

\* C29 as claimed (Disabled store still marks entries seen): when the store
\* is disabled (no credential, or database set-up or connection test
\* failed) a run makes no page-creation call and reports zero publishes, yet
\* every handled new entry is recorded in the cache and persisted, so a
\* later process with the store enabled makes no publish attempt for them.
DisabledStoreMarksSeenPersisted ==
    /\ [](StoreOff => (MarksSeen /\ Persisted))
    /\ [][(StoreOff /\ enabled') => NotPushedLater]_vars

\* C29, amended: when the store is disabled (no credential, a failed
\* database set-up, or in the modular version a failed connection test) a
\* run makes no page-creation call and reports zero publishes, yet every
\* new entry its publishing loop handles is recorded in the cache, and
\* save() is called when there was a new entry; when the cache is on disk
\* as the run left it, a process that starts within the retention window,
\* store enabled, makes no publish attempt for those entries.
DisabledStoreMarksSeen ==
    /\ [](Disabled => (MarksSeen /\ (new_entries # <<>> => calls = <<SaveCall>>)))
    /\ []((ret.op = "main" /\ impl = "modular" /\ ret.test_failed) => Disabled)
    /\ []((ret.op = "main" /\ ~ret.set_up) => Disabled)
    /\ [][(Disabled /\ Persisted /\ enabled' /\ now' - now <= RETENTION)
             => NotPushedLater]_vars

\* a process with the store disabled handled and saved the three entries of
\* a feed; the next process, store enabled, found all three cached
SeenWhileDisabled ==
    /\ ret.op = "main"
    /\ procs = 3
    /\ ret.earlier = "disabled"
    /\ enabled
    /\ ret.entries = FeedSmall
    /\ run0.file.kind = "mapping"
    /\ \A k \in 1..3 :
          /\ is_entry_cached(run0.cache, FeedSmall[k])
          /\ run0.file.data[generate_entry_id(FeedSmall[k])].title =
                Get(FeedSmall[k], "title", "")
    /\ cached_entries_count = 3
    /\ pushed = <<>>

====
